---- MODULE Spec2Model ----
(***************************************************************************)
(* devstrip: the discovery-and-cleanup engine of src/src/core.rs.          *)
(*                                                                         *)
(* A path is a sequence of component names (<<>> is "/").  The filesystem  *)
(* is a function from the paths of a finite universe to nodes; a node is   *)
(* a directory, a regular file, a symbolic link or absent.  Times are in   *)
(* seconds.  An Option<SystemTime> that is None is the value NONE.         *)
(***************************************************************************)
EXTENDS Integers, Sequences, FiniteSets, TLC

VARIABLES
    fs,          \* the filesystem: path -> node
    rdRev,       \* the order in which the OS lists directory entries
    now,         \* SystemTime::now() of the scan
    config,      \* the ScanConfig
    pc,          \* position of the engine: scan, cleanup, done
    walk,        \* collect_matching_dirs: roots left, queue, results
    found,       \* candidates collected so far by gather_candidates
    candidates,  \* the list scan returned
    dry_run,     \* cleanup's dry_run argument
    index,       \* cleanup's loop index (0-based)
    results,     \* cleanup's results vector
    events,      \* progress callbacks and deletion attempts, in order
    cancel,      \* the shared cancellation flag
    faults,      \* the locations the OS refuses to remove
    extDeleted,  \* another program has removed a path the scan reported
    util,        \* the last call of a utility function: its inputs, its return
    cli,         \* the command-line run: arguments, environment, output, exit
    spin,        \* run_with_spinner: the worker, the two channels, the loop
    gui          \* the DevstripView and its background tasks

vars == <<fs, rdRev, now, config, pc, walk, found, candidates, dry_run,
          index, results, events, cancel, faults, extDeleted, util, cli, spin, gui>>

(***************************************************************************)
(* Bounds of the model.                                                    *)
(***************************************************************************)
MaxAge == 3          \* project directories were modified 0..MaxAge days ago
MaxBrewAge == 2      \* Homebrew downloads were modified 0..MaxBrewAge days ago
MaxKeep == 3         \* keep_latest_* ranges over 0..MaxKeep
MaxDepthCfg == 2     \* max_depth ranges over 0..MaxDepthCfg
MaxLinkDepth == 3    \* symbolic links followed while resolving one path
Width == 8           \* bits of the scaled u64

NONE == -1
SECS_PER_DAY == 86400
U64_MAX == 2^Width - 1

(***************************************************************************)
(* Static tables of core.rs.                                               *)
(***************************************************************************)
SKIP_DIR_NAMES == {".git", ".hg", ".svn", ".idea", ".vscode", ".gradle"}

PROJECT_PATTERNS ==
    {"build", "dist", "out", "_build", "target", "node_modules",
     "DerivedData", ".pytest_cache", ".mypy_cache", ".ruff_cache", ".tox",
     ".eggs", "coverage", "__pycache__", ".parcel-cache", ".gradle",
     ".sass-cache", ".cache"}

Target(rel, category, reason) ==
    [rel |-> rel, category |-> category, reason |-> reason]

CACHE_TARGETS == <<
    Target(<<"Library", "Caches", "pip">>, "Python", "pip cache"),
    Target(<<".cache", "pip">>, "Python", "pip cache"),
    Target(<<".cache", "pip-tools">>, "Python", "pip-tools cache"),
    Target(<<".cache", "pipenv">>, "Python", "pipenv cache"),
    Target(<<".cache", "pre-commit">>, "Python", "pre-commit cache"),
    Target(<<".cache", "matplotlib">>, "Python", "matplotlib cache"),
    Target(<<".cache", "pytest">>, "Python", "pytest cache"),
    Target(<<".cache", "ruff">>, "Python", "ruff cache"),
    Target(<<".cache", "uv">>, "Python", "uv cache"),
    Target(<<".npm">>, "Node", "npm cache"),
    Target(<<"Library", "Caches", "npm">>, "Node", "npm cache"),
    Target(<<"Library", "Caches", "Yarn">>, "Node", "Yarn cache"),
    Target(<<".cache", "yarn">>, "Node", "Yarn cache"),
    Target(<<"Library", "Caches", "CocoaPods">>, "CocoaPods", "CocoaPods cache"),
    Target(<<".gradle", "caches">>, "Gradle", "Gradle caches"),
    Target(<<".gradle", "daemon">>, "Gradle", "Gradle daemons"),
    Target(<<".gradle", "native">>, "Gradle", "Gradle native cache"),
    Target(<<"Library", "Caches", "JetBrains">>, "JetBrains", "JetBrains IDE caches"),
    Target(<<"Library", "Application Support", "Code", "Cache">>, "VSCode", "VSCode cache"),
    Target(<<"Library", "Application Support", "Code", "CachedData">>, "VSCode", "VSCode cached data"),
    Target(<<"Library", "Application Support", "Slack", "Service Worker", "CacheStorage">>,
           "Slack", "Slack cache") >>

(***************************************************************************)
(* The filesystem, as std::fs sees it.                                     *)
(***************************************************************************)
Node(kind, mtime, mtime_err, len, target) ==
    [kind |-> kind, mtime |-> mtime, mtime_err |-> mtime_err, len |-> len,
     target |-> target]

NoNode == Node("none", 0, TRUE, 0, <<>>)
RootNode == Node("dir", 0, FALSE, 0, <<>>)

Dir(mtime) == Node("dir", mtime, FALSE, 0, <<>>)
\* a directory whose modification time the platform cannot report
DirNoTime(mtime) == Node("dir", mtime, TRUE, 0, <<>>)
File(len) == Node("file", 0, FALSE, len, <<>>)
Link(target) == Node("link", 0, FALSE, Len(target), target)

\* metadata.modified().ok()
modified_ok(metadata) == IF metadata.mtime_err THEN NONE ELSE metadata.mtime

NodeAt(f, p) ==
    IF p = <<>> THEN RootNode
    ELSE IF p \in DOMAIN f THEN f[p] ELSE NoNode

Front(p) == SubSeq(p, 1, Len(p) - 1)
Last(p) == p[Len(p)]

\* Path::starts_with: component-wise prefix
StartsWith(p, e) == Len(e) <= Len(p) /\ SubSeq(p, 1, Len(e)) = e

\* fs::canonicalize: every component must exist, every link is followed
RECURSIVE Resolve(_, _, _, _)
Resolve(f, resolved, rest, fuel) ==
    IF rest = <<>> THEN [ok |-> TRUE, path |-> resolved]
    ELSE LET q == Append(resolved, Head(rest))
             n == NodeAt(f, q)
         IN  IF n.kind = "none" THEN [ok |-> FALSE, path |-> <<>>]
             ELSE IF n.kind = "link"
             THEN IF fuel = 0 THEN [ok |-> FALSE, path |-> <<>>]
                  ELSE LET t == Resolve(f, <<>>, n.target, fuel - 1)
                       IN  IF t.ok THEN Resolve(f, t.path, Tail(rest), fuel)
                           ELSE [ok |-> FALSE, path |-> <<>>]
             ELSE IF n.kind = "file" /\ Tail(rest) # <<>>
             THEN [ok |-> FALSE, path |-> <<>>]
             ELSE Resolve(f, q, Tail(rest), fuel)

canonicalize(f, p) == Resolve(f, <<>>, p, MaxLinkDepth)

\* fs::canonicalize(path).unwrap_or_else(|_| path.to_path_buf())
canonical_key(f, p) ==
    LET r == canonicalize(f, p) IN IF r.ok THEN r.path ELSE p

\* fs::metadata: follows links (Path::exists, Path::is_dir)
Stat(f, p) ==
    LET r == canonicalize(f, p) IN IF r.ok THEN NodeAt(f, r.path) ELSE NoNode

exists(f, p) == Stat(f, p).kind # "none"
is_dir(f, p) == Stat(f, p).kind = "dir"

\* fs::symlink_metadata(path).ok(): the last component is not followed
safe_metadata(f, p) ==
    IF p = <<>> THEN RootNode
    ELSE LET r == canonicalize(f, Front(p))
         IN  IF r.ok /\ NodeAt(f, r.path).kind = "dir"
             THEN NodeAt(f, Append(r.path, Last(p)))
             ELSE NoNode

\* every component name of the universe, in ascending order
NAMES == <<".cache", ".git", ".gradle", ".npm", "A", "B", "C", "Caches", "Developer",
           "Homebrew", "Library", "Projects", "Work", "__pycache__", "build",
           "f", "h", "lnk", "out", "p", "pip", "r", "s", "target", "workspace">>

Reverse(s) == [i \in 1..Len(s) |-> s[Len(s) + 1 - i]]

\* fs::read_dir(path): the names of the entries in the order the OS lists
\* them, or an error
read_dir(f, p, rev) ==
    LET r == canonicalize(f, p)
        Present(n) == NodeAt(f, Append(r.path, n)).kind # "none"
    IN  IF r.ok /\ NodeAt(f, r.path).kind = "dir"
        THEN [ok |-> TRUE,
              names |-> SelectSeq(IF rev THEN Reverse(NAMES) ELSE NAMES, Present)]
        ELSE [ok |-> FALSE, names |-> <<>>]

saturating_add(a, b) == IF a + b > U64_MAX THEN U64_MAX ELSE a + b

\* calculate_size: the loop over the entries of one directory
RECURSIVE SizeEntries(_, _, _, _, _)
SizeEntries(f, current, names, stack, total) ==
    IF names = <<>> THEN [stack |-> stack, total |-> total]
    ELSE LET entry_path == Append(current, Head(names))
             entry_meta == safe_metadata(f, entry_path)
         IN  IF entry_meta.kind = "none" \/ entry_meta.kind = "link"
             THEN SizeEntries(f, current, Tail(names), stack, total)
             ELSE IF entry_meta.kind = "dir"
             THEN SizeEntries(f, current, Tail(names),
                              Append(stack, entry_path), total)
             ELSE SizeEntries(f, current, Tail(names), stack,
                              saturating_add(total, entry_meta.len))

\* calculate_size: the loop over the stack of directories
RECURSIVE SizeStack(_, _, _, _)
SizeStack(f, rev, stack, total) ==
    IF stack = <<>> THEN total
    ELSE LET current == Last(stack)
             entries == read_dir(f, current, rev)
             step == SizeEntries(f, current, entries.names, Front(stack), total)
         IN  SizeStack(f, rev, step.stack, step.total)

calculate_size(f, rev, path) ==
    LET metadata == safe_metadata(f, path)
    IN  IF metadata.kind = "none" THEN 0
        ELSE IF metadata.kind # "dir" THEN metadata.len
        ELSE SizeStack(f, rev, <<path>>, 0)

\* the pairs <<a, b>> of names of the universe where b is a with more
\* characters after it
NAME_EXTENSIONS == {<<"p", "pip">>, <<"C", "Caches">>}

\* str::starts_with on the display strings of two paths
StrStartsWith(p, e) ==
    \/ StartsWith(p, e)
    \/ /\ e # <<>>
       /\ Len(e) <= Len(p)
       /\ SubSeq(p, 1, Len(e) - 1) = Front(e)
       /\ <<Last(e), p[Len(e)]>> \in NAME_EXTENSIONS

is_excluded_by_string(f, path, excludes) ==
    LET resolved == canonical_key(f, path)
    IN  \E i \in 1..Len(excludes) :
            resolved = excludes[i] \/ StrStartsWith(resolved, excludes[i])

is_excluded_raw(f, path, excludes) ==
    \E i \in 1..Len(excludes) : path = excludes[i] \/ StartsWith(path, excludes[i])

\* is_excluded: the canonical path (the raw one when canonicalize fails)
\* equals an exclude or starts with it
is_excluded(f, path, excludes) ==
    LET resolved == canonical_key(f, path)
    IN  \E i \in 1..Len(excludes) :
            resolved = excludes[i] \/ StartsWith(resolved, excludes[i])

(***************************************************************************)
(* Discovery.  A Candidate's reason is <<base>> or, annotated with the     *)
(* matched name by format!("{} ({})"), <<base, name>>.                     *)
(***************************************************************************)
Candidate(path, size, category, reason, last_used) ==
    [path |-> path, size_bytes |-> size, category |-> category,
     reason |-> reason, last_used |-> last_used]

RECURSIVE InsertOldestFirst(_, _)
InsertOldestFirst(sorted, x) ==
    IF sorted = <<>> THEN <<x>>
    ELSE IF Head(sorted).mtime <= x.mtime
         THEN <<Head(sorted)>> \o InsertOldestFirst(Tail(sorted), x)
         ELSE <<x>> \o sorted

\* dated_dirs.sort_by(|a, b| b.0.cmp(&a.0)): stable, newest first
RECURSIVE InsertNewestFirst(_, _)
InsertNewestFirst(sorted, x) ==
    IF sorted = <<>> THEN <<x>>
    ELSE IF Head(sorted).mtime >= x.mtime
         THEN <<Head(sorted)>> \o InsertNewestFirst(Tail(sorted), x)
         ELSE <<x>> \o sorted

RECURSIVE SortNewestFirst(_)
SortNewestFirst(dated) ==
    IF dated = <<>> THEN <<>>
    ELSE InsertNewestFirst(SortNewestFirst(Front(dated)), Last(dated))

\* collect_keep_latest: the loop that dates the children of base
RECURSIVE DatedDirs(_, _, _, _)
DatedDirs(f, base, names, excludes) ==
    IF names = <<>> THEN <<>>
    ELSE LET child == Append(base, Head(names))
             metadata == safe_metadata(f, child)
             rest == DatedDirs(f, base, Tail(names), excludes)
         IN  IF is_excluded(f, child, excludes) THEN rest
             ELSE IF metadata.kind = "none" THEN rest
             ELSE IF metadata.kind # "dir" THEN rest
             ELSE IF modified_ok(metadata) = NONE THEN rest
             ELSE <<[mtime |-> modified_ok(metadata), path |-> child]>> \o rest

RECURSIVE FlagBeyondAnySize(_, _, _, _, _, _, _)
FlagBeyondAnySize(f, rev, dated, idx, keep, category, reason) ==
    IF dated = <<>> THEN <<>>
    ELSE LET d == Head(dated)
             size == calculate_size(f, rev, d.path)
             rest == FlagBeyondAnySize(f, rev, Tail(dated), idx + 1, keep, category, reason)
         IN  IF idx < keep THEN rest
             ELSE <<Candidate(d.path, size, category, <<reason>>, d.mtime)>> \o rest

\* collect_keep_latest: the loop that flags the entries beyond the first keep
RECURSIVE FlagBeyond(_, _, _, _, _, _, _)
FlagBeyond(f, rev, dated, idx, keep, category, reason) ==
    IF dated = <<>> THEN <<>>
    ELSE LET d == Head(dated)
             size == calculate_size(f, rev, d.path)
             rest == FlagBeyond(f, rev, Tail(dated), idx + 1, keep, category, reason)
         IN  IF idx < keep THEN rest
             ELSE IF size = 0 THEN rest
             ELSE <<Candidate(d.path, size, category, <<reason>>, d.mtime)>> \o rest

collect_keep_latest(f, rev, base, keep, category, reason, excludes) ==
    IF is_excluded(f, base, excludes) \/ ~exists(f, base) THEN <<>>
    ELSE LET entries == read_dir(f, base, rev)
         IN  IF ~entries.ok THEN <<>>
             ELSE FlagBeyond(f, rev,
                             SortNewestFirst(DatedDirs(f, base, entries.names, excludes)),
                             0, keep, category, reason)

collect_whole_directory(f, rev, path, category, reason, excludes) ==
    IF is_excluded(f, path, excludes) \/ ~exists(f, path) THEN <<>>
    ELSE LET size == calculate_size(f, rev, path)
         IN  IF size = 0 THEN <<>>
             ELSE <<Candidate(path, size, category, <<reason>>,
                              modified_ok(safe_metadata(f, path)))>>

\* name.ends_with(".egg-info"), over the names of the universe
ends_with_egg_info(name) == name \in {"x.egg-info", ".egg-info"}

\* classify_project_dir: the reason, or NO_REASON for None
NO_REASON == <<>>

classify_project_dir_no_special(name, base_reason, cutoff, modified) ==
    IF ~(name \in PROJECT_PATTERNS \/ ends_with_egg_info(name)) THEN NO_REASON
    ELSE IF cutoff # NONE /\ modified # NONE /\ modified >= cutoff THEN NO_REASON
    ELSE <<base_reason, name>>

classify_project_dir_after(name, base_reason, cutoff, modified) ==
    IF name = "__pycache__" THEN <<base_reason>>
    ELSE IF ~(name \in PROJECT_PATTERNS \/ ends_with_egg_info(name)) THEN NO_REASON
    ELSE IF cutoff # NONE /\ modified # NONE /\ modified > cutoff THEN NO_REASON
    ELSE <<base_reason, name>>

classify_project_dir(name, base_reason, cutoff, modified) ==
    IF name = "__pycache__" THEN <<base_reason>>
    ELSE IF ~(name \in PROJECT_PATTERNS \/ ends_with_egg_info(name)) THEN NO_REASON
    ELSE IF cutoff # NONE /\ modified # NONE /\ modified >= cutoff THEN NO_REASON
    ELSE <<base_reason, name>>

\* SystemTime::now().checked_sub(Duration::from_secs(min_age_days * 86_400)),
\* None when the result is below the smallest time (0 here)
Cutoff(t, min_age_days) ==
    IF min_age_days = 0 THEN NONE
    ELSE IF t - min_age_days * SECS_PER_DAY < 0 THEN NONE
    ELSE t - min_age_days * SECS_PER_DAY

EnqueueSameDepth(queue, path, depth, max_depth) ==
    IF depth < max_depth
    THEN Append(queue, [path |-> path, depth |-> depth])
    ELSE queue

\* collect_matching_dirs: `if depth < max_depth { queue.push_back(..) }`
Enqueue(queue, path, depth, max_depth) ==
    IF depth < max_depth
    THEN Append(queue, [path |-> path, depth |-> depth + 1])
    ELSE queue

RECURSIVE WalkEntriesPatternFirst(_, _, _, _, _, _, _, _, _)
WalkEntriesPatternFirst(f, rev, t, cfg, root, current, depth, names, w) ==
    IF names = <<>> THEN w
    ELSE LET path == Append(current, Head(names))
             file_type == safe_metadata(f, path).kind
             metadata == safe_metadata(f, path)
             modified == modified_ok(metadata)
             reason_text == classify_project_dir(Head(names), "Stale build or cache",
                                                 Cutoff(t, cfg.min_age_days), modified)
             size == calculate_size(f, rev, path)
             next(w2) == WalkEntriesPatternFirst(f, rev, t, cfg, root, current, depth,
                                                 Tail(names), w2)
         IN  IF file_type = "none" \/ file_type = "link" THEN next(w)
             ELSE IF file_type # "dir" THEN next(w)
             ELSE IF is_excluded(f, path, cfg.exclude_paths) THEN next(w)
             ELSE IF reason_text # NO_REASON
             THEN IF size > 0
                  THEN next([w EXCEPT
                        !.results = Append(@, Candidate(path, size, "Project",
                                                        reason_text, modified)),
                        !.origin = Append(@, root)])
                  ELSE next(w)
             ELSE IF Head(names) \in SKIP_DIR_NAMES THEN next(w)
             ELSE next([w EXCEPT !.queue = Enqueue(@, path, depth, cfg.max_depth)])

RECURSIVE WalkEntriesNoContinue(_, _, _, _, _, _, _, _, _)
WalkEntriesNoContinue(f, rev, t, cfg, root, current, depth, names, w) ==
    IF names = <<>> THEN w
    ELSE LET path == Append(current, Head(names))
             file_type == safe_metadata(f, path).kind
             metadata == safe_metadata(f, path)
             modified == modified_ok(metadata)
             reason_text == classify_project_dir(Head(names), "Stale build or cache",
                                                 Cutoff(t, cfg.min_age_days), modified)
             size == calculate_size(f, rev, path)
             next(w2) == WalkEntriesNoContinue(f, rev, t, cfg, root, current, depth,
                                               Tail(names), w2)
             queued == [w EXCEPT !.queue = Enqueue(@, path, depth, cfg.max_depth)]
         IN  IF file_type = "none" \/ file_type = "link" THEN next(w)
             ELSE IF file_type # "dir" THEN next(w)
             ELSE IF is_excluded(f, path, cfg.exclude_paths) THEN next(w)
             ELSE IF Head(names) \in SKIP_DIR_NAMES THEN next(w)
             ELSE IF reason_text # NO_REASON /\ size > 0
             THEN next([queued EXCEPT
                        !.results = Append(@, Candidate(path, size, "Project",
                                                        reason_text, modified)),
                        !.origin = Append(@, root)])
             ELSE next(queued)

\* collect_matching_dirs: the loop over the entries of one directory;
\* w is [queue, results, origin], origin[i] being the root results[i] was
\* found from
RECURSIVE WalkEntries(_, _, _, _, _, _, _, _, _)
WalkEntries(f, rev, t, cfg, root, current, depth, names, w) ==
    IF names = <<>> THEN w
    ELSE LET path == Append(current, Head(names))
             file_type == safe_metadata(f, path).kind
             metadata == safe_metadata(f, path)
             modified == modified_ok(metadata)
             reason_text == classify_project_dir(Head(names), "Stale build or cache",
                                                 Cutoff(t, cfg.min_age_days), modified)
             size == calculate_size(f, rev, path)
             next(w2) == WalkEntries(f, rev, t, cfg, root, current, depth, Tail(names), w2)
         IN  IF file_type = "none" \/ file_type = "link" THEN next(w)
             ELSE IF file_type # "dir" THEN next(w)
             ELSE IF is_excluded(f, path, cfg.exclude_paths) THEN next(w)
             ELSE IF Head(names) \in SKIP_DIR_NAMES THEN next(w)
             ELSE IF reason_text # NO_REASON
             THEN IF size > 0
                  THEN next([w EXCEPT
                        !.results = Append(@, Candidate(path, size, "Project",
                                                        reason_text, modified)),
                        !.origin = Append(@, root)])
                  ELSE next(w)
             ELSE next([w EXCEPT !.queue = Enqueue(@, path, depth, cfg.max_depth)])

\* collect_matching_dirs: the state before the first root
WalkInit ==
    [ri |-> 1, root |-> <<>>, queue |-> <<>>, results |-> <<>>,
     origin |-> <<>>, listed |-> <<>>]

WalkDone(cfg, w) == w.queue = <<>> /\ w.ri > Len(cfg.roots)

\* collect_matching_dirs: one iteration of `while let Some(..) = queue.pop_front()`,
\* or, when the queue is empty, of `for root in roots`
WalkNext(f, rev, t, cfg, w) ==
    IF w.queue # <<>>
    THEN LET current == Head(w.queue).path
             depth == Head(w.queue).depth
             popped == [w EXCEPT !.queue = Tail(@)]
             entries == read_dir(f, current, rev)
         IN  IF depth > cfg.max_depth THEN popped
             ELSE IF is_excluded(f, current, cfg.exclude_paths) THEN popped
             ELSE IF ~entries.ok THEN popped
             ELSE WalkEntries(f, rev, t, cfg, w.root, current, depth, entries.names,
                              [popped EXCEPT !.listed = Append(@, current)])
    ELSE LET root == cfg.roots[w.ri]
         IN  IF is_excluded(f, root, cfg.exclude_paths) \/ ~is_dir(f, root)
             THEN [w EXCEPT !.ri = @ + 1]
             ELSE [w EXCEPT !.ri = @ + 1, !.root = root,
                            !.queue = <<[path |-> root, depth |-> 0]>>]

RECURSIVE WalkRun(_, _, _, _, _)
WalkRun(f, rev, t, cfg, w) ==
    IF WalkDone(cfg, w) THEN w ELSE WalkRun(f, rev, t, cfg, WalkNext(f, rev, t, cfg, w))

collect_matching_dirs(f, rev, t, cfg) == WalkRun(f, rev, t, cfg, WalkInit).results

(***************************************************************************)
(* Aggregation: gather_candidates.                                         *)
(***************************************************************************)
Home == <<"h">>

\* build_cache_targets followed by the loop over it in gather_candidates
RECURSIVE CacheTargetCandidates(_, _, _, _, _)
CacheTargetCandidates(f, rev, home, excludes, i) ==
    IF i > Len(CACHE_TARGETS) THEN <<>>
    ELSE collect_whole_directory(f, rev, home \o CACHE_TARGETS[i].rel,
                                 CACHE_TARGETS[i].category, CACHE_TARGETS[i].reason,
                                 excludes)
         \o CacheTargetCandidates(f, rev, home, excludes, i + 1)

\* gather_candidates, up to the call of collect_matching_dirs
FixedCandidates(f, rev, cfg) ==
    collect_keep_latest(f, rev, Home \o <<"Library", "Developer", "Xcode", "DerivedData">>,
                        cfg.keep_latest_derived, "Xcode", "Old DerivedData projects",
                        cfg.exclude_paths)
    \o collect_keep_latest(f, rev, Home \o <<"Library", "Developer", "Xcode", "Archives">>,
                           cfg.keep_latest_derived, "Xcode", "Old Xcode archives",
                           cfg.exclude_paths)
    \o collect_whole_directory(f, rev,
                               Home \o <<"Library", "Developer", "CoreSimulator", "Caches">>,
                               "Xcode", "CoreSimulator caches", cfg.exclude_paths)
    \o collect_keep_latest(f, rev, Home \o <<"Library", "Caches", "Homebrew">>,
                           cfg.keep_latest_cache, "Homebrew", "Homebrew download cache",
                           cfg.exclude_paths)
    \o CacheTargetCandidates(f, rev, Home, cfg.exclude_paths, 1)

\* dedupe_candidates: the first candidate of each canonical key is kept
RECURSIVE DedupeFrom(_, _, _)
DedupeFrom(f, cands, seen) ==
    IF cands = <<>> THEN <<>>
    ELSE LET key == canonical_key(f, Head(cands).path)
         IN  IF key \in seen THEN DedupeFrom(f, Tail(cands), seen)
             ELSE <<Head(cands)>> \o DedupeFrom(f, Tail(cands), seen \cup {key})

RECURSIVE DedupeByPathFrom(_, _)
DedupeByPathFrom(cands, seen) ==
    IF cands = <<>> THEN <<>>
    ELSE IF Head(cands).path \in seen THEN DedupeByPathFrom(Tail(cands), seen)
    ELSE <<Head(cands)>> \o DedupeByPathFrom(Tail(cands), seen \cup {Head(cands).path})

dedupe_by_path(f, cands) == DedupeByPathFrom(cands, {})

dedupe_candidates(f, cands) == DedupeFrom(f, cands, {})

\* the category strings, in the order of str::cmp
CATEGORIES == <<"CocoaPods", "Gradle", "Homebrew", "JetBrains", "Node", "Project",
                "Python", "Slack", "VSCode", "Xcode">>

Rank(seq, x) == CHOOSE i \in 1..Len(seq) : seq[i] = x

\* str::cmp of two display names: -1, 0, 1.  No name of the universe extends
\* another one by a byte below '/', so the comparison is component-wise.
RECURSIVE PathCmp(_, _)
PathCmp(a, b) ==
    IF a = <<>> /\ b = <<>> THEN 0
    ELSE IF a = <<>> THEN -1
    ELSE IF b = <<>> THEN 1
    ELSE IF Head(a) = Head(b) THEN PathCmp(Tail(a), Tail(b))
    ELSE IF Rank(NAMES, Head(a)) < Rank(NAMES, Head(b)) THEN -1 ELSE 1

SortLeqCategoryFirst(a, b) ==
    IF a.category # b.category
    THEN Rank(CATEGORIES, a.category) < Rank(CATEGORIES, b.category)
    ELSE IF a.size_bytes # b.size_bytes THEN b.size_bytes < a.size_bytes
    ELSE PathCmp(a.path, b.path) <= 0

\* the comparator of candidates.sort_by in gather_candidates: a goes before b
\* or they compare equal
SortLeq(a, b) ==
    IF a.size_bytes # b.size_bytes THEN b.size_bytes < a.size_bytes
    ELSE IF a.category # b.category
    THEN Rank(CATEGORIES, a.category) < Rank(CATEGORIES, b.category)
    ELSE PathCmp(a.path, b.path) <= 0

RECURSIVE InsertCandidate(_, _)
InsertCandidate(sorted, x) ==
    IF sorted = <<>> THEN <<x>>
    ELSE IF SortLeq(Head(sorted), x)
         THEN <<Head(sorted)>> \o InsertCandidate(Tail(sorted), x)
         ELSE <<x>> \o sorted

RECURSIVE SortCandidates(_)
SortCandidates(cands) ==
    IF cands = <<>> THEN <<>>
    ELSE InsertCandidate(SortCandidates(Front(cands)), Last(cands))

\* gather_candidates, from the call of dedupe_candidates on
Aggregate(f, cands) == SortCandidates(dedupe_candidates(f, cands))

\* scan(config) on filesystem f
scan(f, rev, t, cfg) ==
    Aggregate(f, FixedCandidates(f, rev, cfg) \o collect_matching_dirs(f, rev, t, cfg))

(***************************************************************************)
(* The utilities for callers: default_roots and scan_total_size.           *)
(***************************************************************************)
DEFAULT_HOME_PROJECT_DIRS == <<"Projects", "workspace", "Work", "Developer">>

\* std::env::current_dir() and home_dir(): a path, or an error / None
Env(cwd_ok, cwd, home_some, home) ==
    [cwd_ok |-> cwd_ok, cwd |-> cwd, home_some |-> home_some, home |-> home]

\* default_roots: `for name in DEFAULT_HOME_PROJECT_DIRS`
HomeProjectDirs(f, env) ==
    LET joined == [i \in 1..Len(DEFAULT_HOME_PROJECT_DIRS) |->
                      Append(env.home, DEFAULT_HOME_PROJECT_DIRS[i])]
        IsDir(candidate) == is_dir(f, candidate)
    IN  IF env.home_some THEN SelectSeq(joined, IsDir) ELSE <<>>

RECURSIVE UniqueRootsUnresolved(_, _, _, _)
UniqueRootsUnresolved(f, roots, excludes, seen) ==
    IF roots = <<>> THEN <<>>
    ELSE LET root == Head(roots)
             resolved == canonical_key(f, root)
         IN  IF resolved \in seen
             THEN UniqueRootsUnresolved(f, Tail(roots), excludes, seen)
             ELSE IF ~exists(f, resolved)
             THEN UniqueRootsUnresolved(f, Tail(roots), excludes, seen)
             ELSE IF is_excluded(f, resolved, excludes)
             THEN UniqueRootsUnresolved(f, Tail(roots), excludes, seen)
             ELSE <<root>> \o UniqueRootsUnresolved(f, Tail(roots), excludes,
                                                     seen \cup {resolved})

\* default_roots: `for root in roots`, with the set seen
RECURSIVE UniqueRoots(_, _, _, _)
UniqueRoots(f, roots, excludes, seen) ==
    IF roots = <<>> THEN <<>>
    ELSE LET root == Head(roots)
             resolved == canonical_key(f, root)
         IN  IF resolved \in seen
             THEN UniqueRoots(f, Tail(roots), excludes, seen)
             ELSE IF ~exists(f, resolved)
             THEN UniqueRoots(f, Tail(roots), excludes, seen)
             ELSE IF is_excluded(f, resolved, excludes)
             THEN UniqueRoots(f, Tail(roots), excludes, seen)
             ELSE <<resolved>> \o UniqueRoots(f, Tail(roots), excludes,
                                               seen \cup {resolved})

default_roots_unresolved(f, env, extra, excludes) ==
    IF ~env.cwd_ok
    THEN [ok |-> FALSE, roots |-> <<>>,
          error |-> "Unable to determine current directory"]
    ELSE [ok |-> TRUE,
          roots |-> UniqueRootsUnresolved(f, <<env.cwd>> \o HomeProjectDirs(f, env) \o extra,
                                          excludes, {}),
          error |-> "-"]

\* default_roots(extra, excludes): Ok(unique) or the error of current_dir
default_roots(f, env, extra, excludes) ==
    IF ~env.cwd_ok
    THEN [ok |-> FALSE, roots |-> <<>>,
          error |-> "Unable to determine current directory"]
    ELSE [ok |-> TRUE,
          roots |-> UniqueRoots(f, <<env.cwd>> \o HomeProjectDirs(f, env) \o extra,
                                excludes, {}),
          error |-> "-"]

\* the sum of the sizes, as a number
RECURSIVE SumSizes(_)
SumSizes(cands) ==
    IF cands = <<>> THEN 0 ELSE Head(cands).size_bytes + SumSizes(Tail(cands))

\* Iterator::sum over u64: when the sum leaves the range the addition panics
\* in a build with overflow checks and wraps around in one without
SumU64(cands) ==
    IF SumSizes(cands) <= U64_MAX
    THEN {[panicked |-> FALSE, value |-> SumSizes(cands)]}
    ELSE {[panicked |-> TRUE, value |-> 0],
          [panicked |-> FALSE, value |-> SumSizes(cands) % (U64_MAX + 1)]}

\* scan_total_size(candidates): the outcomes the build can produce
scan_total_size(cands) == SumU64(cands)

(***************************************************************************)
(* Cleanup.                                                                *)
(***************************************************************************)
NO_ERROR == "-"

\* where the last component of path really is
Location(f, path) == Append(canonicalize(f, Front(path)).path, Last(path))

\* the filesystem without loc and everything below it
RemoveTree(f, loc) ==
    [q \in DOMAIN f |-> IF StartsWith(q, loc) THEN NoNode ELSE f[q]]

\* fs::remove_dir_all and fs::remove_file: the OS refuses when loc or
\* something below it cannot be removed, and then nothing is removed
Remove(f, flt, loc) ==
    IF \E q \in flt : StartsWith(q, loc) /\ NodeAt(f, q).kind # "none"
    THEN [ok |-> FALSE, fs |-> f, error |-> "Permission denied"]
    ELSE [ok |-> TRUE, fs |-> RemoveTree(f, loc), error |-> NO_ERROR]

delete_path_strict(f, flt, path) ==
    LET metadata == safe_metadata(f, path)
    IN  IF metadata.kind = "none" THEN [ok |-> FALSE, fs |-> f, error |-> "Not found"]
        ELSE Remove(f, flt, Location(f, path))

delete_path(f, flt, path) ==
    LET metadata == safe_metadata(f, path)
    IN  IF metadata.kind = "none" THEN [ok |-> TRUE, fs |-> f, error |-> NO_ERROR]
        ELSE Remove(f, flt, Location(f, path))

CleanupResult(candidate, success, error) ==
    [candidate |-> candidate, success |-> success, error |-> error]

AttemptIgnoringDryRun(f, flt, dry, path) == delete_path(f, flt, path)

\* cleanup_with_callback: `let (success, error) = if dry_run {..} else {..}`
Attempt(f, flt, dry, path) ==
    IF dry THEN [ok |-> TRUE, fs |-> f, error |-> NO_ERROR]
    ELSE delete_path(f, flt, path)

IterationEventsAttemptFirst(dry, progress, attempt) ==
    IF dry THEN <<progress>> ELSE <<attempt, progress>>

\* cleanup_with_callback: what one iteration does, in order: the callback,
\* then, unless dry_run, the call of delete_path
IterationEvents(dry, progress, attempt) ==
    IF dry THEN <<progress>> ELSE <<progress, attempt>>

\* no utility function has been called; the engine is not run from the CLI
NoCall == [op |-> "none"]
NoCli == [phase |-> "none"]
NoSpin == [fpc |-> "none"]
NoGui == [view |-> "none"]

(***************************************************************************)
(* The engine as a state machine: a scan, then a cleanup of its result.    *)
(***************************************************************************)
\* gather_candidates, up to the first iteration of collect_matching_dirs
StartScan ==
    /\ pc = "start"
    /\ found' = FixedCandidates(fs, rdRev, config)
    /\ walk' = WalkInit
    /\ pc' = "walk"
    /\ UNCHANGED <<spin, gui, fs, rdRev, now, config, candidates, dry_run, index, results,
                   events, cancel, faults, extDeleted,
                   util, cli>>

\* scan_with_cancel: the flag is read at the start of a directory's processing
ScanMayContinue == ~cancel

\* one iteration of collect_matching_dirs
WalkStep ==
    /\ pc = "walk"
    /\ ScanMayContinue
    /\ ~WalkDone(config, walk)
    /\ walk' = WalkNext(fs, rdRev, now, config, walk)
    /\ UNCHANGED <<spin, gui, fs, rdRev, now, config, pc, found, candidates, dry_run, index,
                   results, events, cancel, faults, extDeleted,
                   util, cli>>

\* collect_matching_dirs returns; gather_candidates dedupes, sorts and returns
FinishScan ==
    /\ pc = "walk"
    /\ WalkDone(config, walk)
    /\ candidates' = Aggregate(fs, found \o walk.results)
    /\ pc' = "scanned"
    /\ UNCHANGED <<spin, gui, fs, rdRev, now, config, walk, found, dry_run, index, results,
                   events, cancel, faults, extDeleted,
                   util, cli>>

\* the Stop button: the flag is set while a scan is running
stop_scan ==
    /\ pc = "walk"
    /\ ~cancel
    /\ cancel' = TRUE
    /\ UNCHANGED <<spin, gui, fs, rdRev, now, config, pc, walk, found, candidates, dry_run,
                   index, results, events, faults, extDeleted,
                   util, cli>>

\* scan_with_cancel sees the flag set: it returns what it has found so far
StopScan ==
    /\ pc = "walk"
    /\ ~ScanMayContinue
    /\ ~WalkDone(config, walk)
    /\ candidates' = Aggregate(fs, found \o walk.results)
    /\ pc' = "scanned"
    /\ UNCHANGED <<spin, gui, fs, rdRev, now, config, walk, found, dry_run, index, results,
                   events, cancel, faults, extDeleted,
                   util, cli>>

\* another program removes a path the scan reported, before the cleanup
ExternalDelete ==
    /\ pc = "scanned"
    /\ ~extDeleted
    /\ \E i \in 1..Len(candidates) :
          /\ safe_metadata(fs, candidates[i].path).kind # "none"
          /\ fs' = RemoveTree(fs, Location(fs, candidates[i].path))
    /\ extDeleted' = TRUE
    /\ UNCHANGED <<spin, gui, rdRev, now, config, pc, walk, found, candidates, dry_run, index,
                   results, events, cancel, faults,
                   util, cli>>

\* cleanup_with_callback is called on the list the scan returned
StartCleanup ==
    /\ pc = "scanned"
    /\ \E d \in BOOLEAN : dry_run' = d
    /\ index' = 0
    /\ results' = <<>>
    /\ events' = <<>>
    /\ pc' = "cleanup"
    /\ UNCHANGED <<spin, gui, fs, rdRev, now, config, walk, found, candidates, cancel, faults,
                   extDeleted,
                   util, cli>>

\* one iteration of the loop of cleanup_with_callback
CleanupStep ==
    /\ pc = "cleanup"
    /\ index < Len(candidates)
    /\ LET candidate == candidates[index + 1]
           total == Len(candidates)
           progress == [kind |-> "progress", index |-> index, total |-> total,
                        path |-> candidate.path, existed |-> TRUE, ok |-> TRUE]
           outcome == Attempt(fs, faults, dry_run, candidate.path)
           attempt == [kind |-> "delete", index |-> index, total |-> total,
                       path |-> candidate.path,
                       existed |-> safe_metadata(fs, candidate.path).kind # "none",
                       ok |-> outcome.ok]
       IN  /\ events' = events \o IterationEvents(dry_run, progress, attempt)
           /\ results' = Append(results,
                                CleanupResult(candidate, outcome.ok, outcome.error))
           /\ fs' = outcome.fs
    /\ index' = index + 1
    /\ UNCHANGED <<spin, gui, rdRev, now, config, pc, walk, found, candidates, dry_run, cancel,
                   faults, extDeleted,
                   util, cli>>

CleanupReturnWhenCancelled ==
    /\ pc = "cleanup"
    /\ index = Len(candidates) \/ cancel
    /\ pc' = "done"
    /\ UNCHANGED <<spin, gui, fs, rdRev, now, config, walk, found, candidates, dry_run, index,
                   results, events, cancel, faults, extDeleted,
                   util, cli>>

CleanupReturnOnFailure ==
    /\ pc = "cleanup"
    /\ index = Len(candidates) \/ (results # <<>> /\ ~Last(results).success)
    /\ pc' = "done"
    /\ UNCHANGED <<spin, gui, fs, rdRev, now, config, walk, found, candidates, dry_run, index,
                   results, events, cancel, faults, extDeleted,
                   util, cli>>

\* cleanup_with_callback returns results
CleanupReturn ==
    /\ pc = "cleanup"
    /\ index = Len(candidates)
    /\ pc' = "done"
    /\ UNCHANGED <<spin, gui, fs, rdRev, now, config, walk, found, candidates, dry_run, index,
                   results, events, cancel, faults, extDeleted,
                   util, cli>>

(***************************************************************************)
(* The filesystems and configurations the engine is started on.            *)
(***************************************************************************)
Proj == <<"h", "p">>
RootLink == <<"r">>
Brew == <<"h", "Library", "Caches", "Homebrew">>

Now == (MaxAge + 1) * SECS_PER_DAY
DaysAgo(a) == Now - a * SECS_PER_DAY
Ages == {DaysAgo(a) : a \in 0..MaxAge}
BrewAges == {DaysAgo(a) : a \in 0..MaxBrewAge}

\* a Homebrew cache with three downloads A, B, C
BrewTree(ta, tb, tc, la) ==
    (<<"h">> :> Dir(0))
    @@ (<<"h", "Library">> :> Dir(0))
    @@ (<<"h", "Library", "Caches">> :> Dir(0))
    @@ (Brew :> Dir(0))
    @@ (Brew \o <<"A">> :> Dir(ta)) @@ (Brew \o <<"A", "f">> :> File(la))
    @@ (Brew \o <<"B">> :> Dir(tb)) @@ (Brew \o <<"B", "f">> :> File(1))
    @@ (Brew \o <<"C">> :> Dir(tc)) @@ (Brew \o <<"C", "f">> :> File(1))

\* a home directory with a project p, caches, and a link r to the project
ProjTree(build, lb, tt, npmLinked) ==
    (<<"h">> :> Dir(0))
    @@ (Proj :> Dir(DaysAgo(0)))
    @@ (Proj \o <<"build">> :> build)
    @@ (Proj \o <<"build", "f">> :> File(lb))
    @@ (Proj \o <<"build", "out">> :> Dir(DaysAgo(MaxAge)))
    @@ (Proj \o <<"build", "out", "f">> :> File(lb))
    @@ (Proj \o <<".git">> :> Dir(DaysAgo(MaxAge)))
    @@ (Proj \o <<".git", "build">> :> Dir(DaysAgo(MaxAge)))
    @@ (Proj \o <<".git", "build", "f">> :> File(1))
    @@ (Proj \o <<".gradle">> :> Dir(DaysAgo(MaxAge)))
    @@ (Proj \o <<".gradle", "f">> :> File(1))
    @@ (Proj \o <<"s">> :> Dir(DaysAgo(0)))
    @@ (Proj \o <<"s", "target">> :> Dir(tt))
    @@ (Proj \o <<"s", "target", "f">> :> File(2))
    @@ (Proj \o <<"__pycache__">> :> Dir(DaysAgo(0)))
    @@ (Proj \o <<"__pycache__", "f">> :> File(1))
    @@ (Proj \o <<"lnk">> :> Link(Proj \o <<"build">>))
    @@ (RootLink :> Link(Proj))
    @@ (<<"h", ".cache">> :> Dir(DaysAgo(MaxAge)))
    @@ (<<"h", ".cache", "pip">> :> Dir(DaysAgo(MaxAge)))
    @@ (<<"h", ".cache", "pip", "f">> :> File(2))
    @@ (IF npmLinked
        THEN (<<"h", ".npm">> :> Link(Proj \o <<"build">>))
        ELSE (<<"h", ".npm">> :> Dir(DaysAgo(1)))
             @@ (<<"h", ".npm", "f">> :> File(3)))

ScanConfig(roots, min_age_days, max_depth, keep_derived, keep_cache, excludes) ==
    [roots |-> roots, min_age_days |-> min_age_days, max_depth |-> max_depth,
     keep_latest_derived |-> keep_derived, keep_latest_cache |-> keep_cache,
     exclude_paths |-> excludes]

Scenario(f, rev, cfg, flt) == [fs |-> f, rdRev |-> rev, config |-> cfg, faults |-> flt]

\* retention: the times of A, B, C, an empty A, keep, an excluded C, the order
BrewScenarios ==
    {Scenario(BrewTree(ta, tb, tc, la), rev,
              ScanConfig(<<<<"h">>>>, 0, 0, 1, keep, ex), {}) :
        ta \in BrewAges, tb \in BrewAges, tc \in BrewAges, la \in {0, 1},
        keep \in 0..MaxKeep, ex \in {<<>>, <<Brew \o <<"C">>>>}, rev \in BOOLEAN}

\* the walk: roots (one a link, two nested), depth, excludes
WalkScenarios ==
    {Scenario(ProjTree(Dir(DaysAgo(MaxAge)), 1, DaysAgo(MaxAge), npmLinked), FALSE,
              ScanConfig(roots, 0, depth, 1, 1, ex), {}) :
        roots \in {<<Proj>>, <<<<"h">>>>, <<RootLink>>, <<<<"h">>, Proj>>,
                   <<RootLink, Proj>>, <<Proj \o <<"gone">>, RootLink>>,
                   <<Proj \o <<".git">>>>},
        depth \in 0..MaxDepthCfg,
        ex \in {<<>>, <<Proj \o <<"build">>>>, <<Proj \o <<"build", "out">>>>,
                <<Proj \o <<"s">>, <<"h", ".cache", "pip">>>>, <<<<"h", ".cache">>>>},
        npmLinked \in BOOLEAN}

\* age: min_age_days, the times of build and target (build's may be
\* unreadable), an empty build
AgeScenarios ==
    {Scenario(ProjTree(build, lb, tt, FALSE), FALSE,
              ScanConfig(<<Proj>>, d, MaxDepthCfg, 1, 1, <<>>), {}) :
        build \in {Dir(t) : t \in Ages} \cup {DirNoTime(t) : t \in Ages},
        lb \in {0, 1}, tt \in {DaysAgo(0), DaysAgo(MaxAge)},
        d \in {0, 2, MaxAge + 2}}

\* cleanup: the locations the OS refuses to remove
FaultScenarios ==
    {Scenario(ProjTree(Dir(DaysAgo(MaxAge)), 1, DaysAgo(MaxAge), npmLinked), rev,
              ScanConfig(<<<<"h">>>>, 0, MaxDepthCfg, 1, 1, <<>>), flt) :
        flt \in SUBSET {Proj \o <<"build", "f">>, Proj \o <<"s", "target">>,
                        <<"h", ".cache", "pip">>, <<"h", ".npm">>},
        npmLinked \in BOOLEAN, rev \in BOOLEAN}

Scenarios == BrewScenarios \cup WalkScenarios \cup AgeScenarios \cup FaultScenarios

Init ==
    /\ \E sc \in Scenarios :
          /\ fs = sc.fs
          /\ rdRev = sc.rdRev
          /\ config = sc.config
          /\ faults = sc.faults
    /\ now = Now
    /\ pc = "start"
    /\ walk = WalkInit
    /\ found = <<>>
    /\ candidates = <<>>
    /\ dry_run = FALSE
    /\ index = 0
    /\ results = <<>>
    /\ events = <<>>
    /\ cancel = FALSE
    /\ extDeleted = FALSE
    /\ util = NoCall
    /\ cli = NoCli
    /\ spin = NoSpin
    /\ gui = NoGui

Next ==
    \/ StartScan
    \/ WalkStep
    \/ FinishScan
    \/ stop_scan
    \/ StopScan
    \/ ExternalDelete
    \/ StartCleanup
    \/ CleanupStep
    \/ CleanupReturn

Spec == Init /\ [][Next]_vars

(***************************************************************************)
(* The utilities, called by a caller that builds a ScanConfig or shows a   *)
(* total: every call is one action, its inputs drawn from small sets.  The *)
(* functions keep no state, so a behaviour makes one call.                 *)
(***************************************************************************)
\* the home directory with ~/pip, ~/Work, and ~/Projects a link to the
\* project or absent, ~/Developer a directory or a file
UtilTree(projectsLinked, developerIsDir) ==
    ProjTree(Dir(DaysAgo(MaxAge)), 1, DaysAgo(MaxAge), FALSE)
    @@ (<<"h", "pip">> :> Dir(0))
    @@ (<<"h", "Work">> :> Dir(0))
    @@ (IF projectsLinked THEN (<<"h", "Projects">> :> Link(Proj))
        ELSE (<<"h", "Projects">> :> NoNode))
    @@ (<<"h", "Developer">> :> IF developerIsDir THEN Dir(0) ELSE File(1))

UtilTrees == {UtilTree(pl, dd) : pl \in BOOLEAN, dd \in BOOLEAN}

ProbePaths ==
    {Proj, <<"h", "pip">>, RootLink, RootLink \o <<"build">>,
     Proj \o <<"build", "out">>, Proj \o <<"lnk">>, Proj \o <<"lnk", "out">>,
     <<"h", "gone">>, <<"h", "gone", "x">>, Proj \o <<"s">>, <<"h">>}

ProbeExcludes ==
    {<<>>, <<Proj>>, <<Proj \o <<"build">>>>, <<<<"h", "gone">>>>, <<RootLink>>,
     <<Proj \o <<"s">>, <<"h", "pip">>>>, <<<<"h", "pip">>>>}

Envs ==
    {Env(TRUE, cwd, TRUE, Home) : cwd \in {Proj, RootLink, <<"h", "Work">>, <<"h", "gone">>}}
    \cup {Env(TRUE, Proj, FALSE, <<>>), Env(FALSE, <<>>, TRUE, Home)}

ExtraRoots ==
    {<<>>, <<Proj>>, <<RootLink, <<"h", "Work">>>>, <<<<"h", "gone">>, Proj \o <<"s">>>>,
     <<<<"h", "Work">>, Proj \o <<"lnk">>, Proj \o <<"build">>>>,
     <<Proj \o <<"build", "f">>, <<"h", "Projects">>>>}

RootExcludes == {<<>>, <<Proj>>, <<<<"h", "Work">>>>, <<Proj \o <<"build">>>>, <<RootLink>>}

MaxTotalLen == 3     \* scan_total_size is called on at most MaxTotalLen candidates

SizeChoices == {1, 2^(Width - 1), U64_MAX}

\* the lists of at most MaxTotalLen candidates, with sizes up to the largest
SizedCandidates ==
    UNION {{[i \in 1..n |-> Candidate(<<"h", NAMES[3 + i]>>, sz[i], "Project",
                                      <<"Stale build or cache">>, NONE)] :
               sz \in [1..n -> SizeChoices]} : n \in 0..MaxTotalLen}

InitUtil ==
    /\ fs \in UtilTrees
    /\ rdRev = FALSE
    /\ config = ScanConfig(<<>>, 0, 0, 1, 1, <<>>)
    /\ faults = {}
    /\ now = Now
    /\ pc = "util"
    /\ walk = WalkInit
    /\ found = <<>>
    /\ candidates = <<>>
    /\ dry_run = FALSE
    /\ index = 0
    /\ results = <<>>
    /\ events = <<>>
    /\ cancel = FALSE
    /\ extDeleted = FALSE
    /\ util = NoCall
    /\ cli = NoCli
    /\ spin = NoSpin
    /\ gui = NoGui

CallIsExcluded ==
    /\ pc = "util"
    /\ util = NoCall
    /\ \E path \in ProbePaths, excludes \in ProbeExcludes :
          util' = [op |-> "is_excluded", path |-> path, excludes |-> excludes,
                   ret |-> is_excluded(fs, path, excludes)]
    /\ UNCHANGED <<spin, gui, fs, rdRev, now, config, pc, walk, found, candidates, dry_run,
                   index, results, events, cancel, faults, extDeleted, cli>>

CallDefaultRoots ==
    /\ pc = "util"
    /\ util = NoCall
    /\ \E env \in Envs, extra \in ExtraRoots, excludes \in RootExcludes :
          util' = [op |-> "default_roots", env |-> env, extra |-> extra,
                   excludes |-> excludes,
                   ret |-> default_roots(fs, env, extra, excludes)]
    /\ UNCHANGED <<spin, gui, fs, rdRev, now, config, pc, walk, found, candidates, dry_run,
                   index, results, events, cancel, faults, extDeleted, cli>>

CallScanTotalSize ==
    /\ pc = "util"
    /\ util = NoCall
    /\ \E cands \in SizedCandidates : \E outcome \in scan_total_size(cands) :
          util' = [op |-> "scan_total_size", candidates |-> cands, ret |-> outcome]
    /\ UNCHANGED <<spin, gui, fs, rdRev, now, config, pc, walk, found, candidates, dry_run,
                   index, results, events, cancel, faults, extDeleted, cli>>

ClassifyNames ==
    {"__pycache__", "build", ".cache", "s", "x.egg-info", ".egg-info", "egg-info",
     "x.egg-info.bak", ".git", ".gradle", "Build"}

CallClassifyProjectDir ==
    /\ pc = "util"
    /\ util = NoCall
    /\ \E name \in ClassifyNames, cutoff \in {NONE, DaysAgo(2)},
          modified \in {NONE} \cup Ages :
          util' = [op |-> "classify_project_dir", name |-> name,
                   base_reason |-> "Stale build or cache", cutoff |-> cutoff,
                   modified |-> modified,
                   ret |-> classify_project_dir(name, "Stale build or cache",
                                                cutoff, modified)]
    /\ UNCHANGED <<spin, gui, fs, rdRev, now, config, pc, walk, found, candidates, dry_run,
                   index, results, events, cancel, faults, extDeleted, cli>>

NextUtil ==
    \/ CallClassifyProjectDir
    \/ CallIsExcluded
    \/ CallDefaultRoots
    \/ CallScanTotalSize

UtilSpec == InitUtil /\ [][NextUtil]_vars

(***************************************************************************)
(* The command-line run: real_main of cli.rs.  The scan and the cleanup    *)
(* are the engine's actions above; run_with_spinner hands the scan's       *)
(* result through.                                                         *)
(***************************************************************************)
\* how the process ends: run returns, process::exit(1) in run, a panic
RUNNING == "running"
EXIT_OK == "exit 0"
EXIT_ERROR == "exit 1"
EXIT_PANIC == "panic"
U32_MAX == U64_MAX   \* u32::MAX, scaled as the u64 is

Args(roots, positional_roots, excludes, min_age_days, max_depth, keep_derived, keep_cache, yes, dry, all) ==
    [roots |-> roots, positional_roots |-> positional_roots, excludes |-> excludes,
     min_age_days |-> min_age_days, max_depth |-> max_depth,
     keep_latest_derived |-> keep_derived, keep_latest_cache |-> keep_cache,
     yes |-> yes, dry_run |-> dry, all |-> all]

\* expand_path: a leading ~ becomes the home directory, when there is one
expand_path(env, path) ==
    IF path # <<>> /\ Head(path) = "~" /\ env.home_some
    THEN env.home \o Tail(path)
    ELSE path

expand_paths(env, paths) == [i \in DOMAIN paths |-> expand_path(env, paths[i])]

\* normalize_paths: the canonical form, or the path itself
normalize_paths(f, paths) == [i \in DOMAIN paths |-> canonical_key(f, paths[i])]

Max(a, b) == IF a > b THEN a ELSE b

build_scan_config(f, env, args) ==
    LET roots == expand_paths(env, args.roots) \o expand_paths(env, args.positional_roots)
        exclude_paths == normalize_paths(f, expand_paths(env, args.excludes))
        resolved_roots == default_roots(f, env, roots, exclude_paths)
    IN  IF ~resolved_roots.ok
        THEN [ok |-> FALSE, error |-> resolved_roots.error,
              config |-> ScanConfig(<<>>, 0, 0, 0, 0, <<>>)]
        ELSE IF args.all
        THEN [ok |-> TRUE, error |-> "-",
              config |-> ScanConfig(resolved_roots.roots, 0, U32_MAX, 0, 0, exclude_paths)]
        ELSE [ok |-> TRUE, error |-> "-",
              config |-> ScanConfig(resolved_roots.roots, args.min_age_days,
                                    Max(args.max_depth, 1), args.keep_latest_derived,
                                    args.keep_latest_cache, exclude_paths)]

\* what the user types at the prompt, or the failure of read_line
READ_ERROR == "<read error>"
NOT_ASKED == "<not asked>"
Answers == {"yes", " YES ", "y", "no", "", READ_ERROR}

\* input.trim().eq_ignore_ascii_case("yes")
trim_eq_yes(input) == input \in {"yes", " YES "}

confirm_cleanup_accept_all(input) ==
    IF input = READ_ERROR
    THEN [ok |-> FALSE, value |-> FALSE, error |-> "Failed to read input"]
    ELSE [ok |-> TRUE, value |-> TRUE, error |-> "-"]

\* confirm_cleanup
confirm_cleanup(input) ==
    IF input = READ_ERROR
    THEN [ok |-> FALSE, value |-> FALSE, error |-> "Failed to read input"]
    ELSE [ok |-> TRUE, value |-> trim_eq_yes(input), error |-> "-"]

Failed(r) == ~r.success
Succeeded(r) == r.success

FailureLine(r) ==
    [path |-> r.candidate.path,
     reason |-> IF r.error = NO_ERROR THEN "unknown error" ELSE r.error]

ReportFailuresExitOk(res) ==
    LET failures == SelectSeq(res, Failed)
    IN  [printed |-> [i \in DOMAIN failures |-> FailureLine(failures[i])],
         status |-> EXIT_OK]

\* real_main, after the cleanup: the lines printed for the failures and the
\* status the process ends with
ReportFailures(res) ==
    LET failures == SelectSeq(res, Failed)
    IN  [printed |-> [i \in DOMAIN failures |-> FailureLine(failures[i])],
         status |-> IF failures # <<>> THEN EXIT_ERROR ELSE EXIT_OK]

Cli(args, env, status, message, answer, cleaned, panicked, printed) ==
    [args |-> args, env |-> env, status |-> status, message |-> message,
     answer |-> answer, cleaned |-> cleaned, panicked |-> panicked,
     printed |-> printed]

\* real_main: build_scan_config(&args)?
BuildScanConfig ==
    /\ pc = "main"
    /\ LET built == build_scan_config(fs, cli.env, cli.args)
       IN  IF built.ok
           THEN /\ config' = built.config
                /\ pc' = "start"
                /\ cli' = cli
           ELSE /\ config' = config
                /\ pc' = "exit"
                /\ cli' = [cli EXCEPT !.status = EXIT_ERROR, !.message = built.error]
    /\ UNCHANGED <<spin, gui, fs, rdRev, now, walk, found, candidates, dry_run, index, results,
                   events, cancel, faults, extDeleted, util>>

\* real_main, from the return of the scan to the prompt: the empty result,
\* print_cli_report with its total, --dry-run
CliReport ==
    /\ pc = "scanned"
    /\ IF candidates = <<>>
       THEN /\ pc' = "exit"
            /\ cli' = [cli EXCEPT !.status = EXIT_OK,
                                  !.message = "No safe cleanup targets were found."]
       ELSE \E total \in scan_total_size(candidates) :
               IF total.panicked
               THEN /\ pc' = "exit"
                    /\ cli' = [cli EXCEPT !.status = EXIT_PANIC, !.panicked = TRUE]
               ELSE IF cli.args.dry_run
               THEN /\ pc' = "exit"
                    /\ cli' = [cli EXCEPT !.status = EXIT_OK,
                                          !.message = "Dry-run: no files will be removed."]
               ELSE /\ pc' = "confirm"
                    /\ cli' = cli
    /\ UNCHANGED <<spin, gui, fs, rdRev, now, config, walk, found, candidates, dry_run, index,
                   results, events, cancel, faults, extDeleted, util>>

\* real_main: `if !args.yes && !confirm_cleanup(&styler)?`, then the call of
\* cleanup_with_progress(&candidates, false, ..)
CliConfirm ==
    /\ pc = "confirm"
    /\ \E input \in (IF cli.args.yes THEN {NOT_ASKED} ELSE Answers) :
          LET confirmed == confirm_cleanup(input)
          IN  IF ~cli.args.yes /\ ~confirmed.ok
              THEN /\ pc' = "exit"
                   /\ cli' = [cli EXCEPT !.status = EXIT_ERROR, !.answer = input,
                                         !.message = confirmed.error]
                   /\ UNCHANGED <<dry_run, index, results, events>>
              ELSE IF ~cli.args.yes /\ ~confirmed.value
              THEN /\ pc' = "exit"
                   /\ cli' = [cli EXCEPT !.status = EXIT_OK, !.answer = input,
                                         !.message = "Cleanup aborted."]
                   /\ UNCHANGED <<dry_run, index, results, events>>
              ELSE /\ pc' = "cleanup"
                   /\ cli' = [cli EXCEPT !.answer = input, !.cleaned = TRUE]
                   /\ dry_run' = FALSE
                   /\ index' = 0
                   /\ results' = <<>>
                   /\ events' = <<>>
    /\ UNCHANGED <<spin, gui, fs, rdRev, now, config, walk, found, candidates, cancel, faults,
                   extDeleted, util>>

\* real_main, from the return of the cleanup to the end: the sum `freed`, the
\* failures printed, Err or Ok
CliFinish ==
    /\ pc = "done"
    /\ \E freed \in SumU64([i \in DOMAIN SelectSeq(results, Succeeded) |->
                               SelectSeq(results, Succeeded)[i].candidate]) :
          IF freed.panicked
          THEN cli' = [cli EXCEPT !.status = EXIT_PANIC, !.panicked = TRUE]
          ELSE cli' = [cli EXCEPT !.status = ReportFailures(results).status,
                                  !.printed = ReportFailures(results).printed,
                                  !.message =
                                      IF ReportFailures(results).status = EXIT_ERROR
                                      THEN "One or more targets could not be removed."
                                      ELSE "-"]
    /\ pc' = "exit"
    /\ UNCHANGED <<spin, gui, fs, rdRev, now, config, walk, found, candidates, dry_run, index,
                   results, events, cancel, faults, extDeleted, util>>

\* the largest file that leaves a directory of two below the largest size
BigLen == 2^(Width - 1) - 1

CliArgs ==
    {Args(roots, <<>>, ex, d, depth, 1, 1, yes, dry, all) :
        roots \in {<<>>, <<<<"~", "p", "s">>>>},
        ex \in {<<>>, <<RootLink \o <<"__pycache__">>>>},
        d \in {0}, depth \in {0, MaxDepthCfg},
        yes \in BOOLEAN, dry \in BOOLEAN, all \in BOOLEAN}

CliEnvs == {Env(TRUE, Proj, TRUE, Home), Env(FALSE, <<>>, TRUE, Home)}

InitCli ==
    /\ \E lb \in {1, BigLen} :
          fs = ProjTree(Dir(DaysAgo(MaxAge)), lb, DaysAgo(MaxAge), FALSE)
    /\ faults \in SUBSET {Proj \o <<"build", "f">>, <<"h", ".cache", "pip">>}
    /\ \E args \in CliArgs, env \in CliEnvs :
          cli = Cli(args, env, RUNNING, "-", NOT_ASKED, FALSE, FALSE, <<>>)
    /\ rdRev = FALSE
    /\ config = ScanConfig(<<>>, 0, 0, 0, 0, <<>>)
    /\ now = Now
    /\ pc = "main"
    /\ walk = WalkInit
    /\ found = <<>>
    /\ candidates = <<>>
    /\ dry_run = FALSE
    /\ index = 0
    /\ results = <<>>
    /\ events = <<>>
    /\ cancel = FALSE
    /\ extDeleted = FALSE
    /\ util = NoCall
    /\ spin = NoSpin
    /\ gui = NoGui

NextCli ==
    \/ BuildScanConfig
    \/ StartScan
    \/ WalkStep
    \/ FinishScan
    \/ CliReport
    \/ CliConfirm
    \/ CleanupStep
    \/ CleanupReturn
    \/ CliFinish

CliSpec == InitCli /\ [][NextCli]_vars

(***************************************************************************)
(* run_with_spinner of cli.rs: the function handed in runs in a spawned    *)
(* thread and reports through two channels, while the calling thread       *)
(* loops: one status message at most, the result channel, a frame, a       *)
(* sleep.  Without animation the function runs in the calling thread.      *)
(* The padding that erases the previous frame is not part of the state.    *)
(***************************************************************************)
MaxUpdates == 2      \* the worker issues at most MaxUpdates status updates
LIMIT == 80          \* truncate_status: const LIMIT
FRAMES == <<"|", "/", "-", "\\">>

\* a status text: which update it is (0: the message of the call) and its length
Status(id, len) == [id |-> id, len |-> len, cut |-> FALSE]
StatusLens == {LIMIT, LIMIT + 1}

\* truncate_status: a text longer than LIMIT is cut to LIMIT - 3 characters
\* and "..." appended
truncate_status(text) ==
    IF text.len <= LIMIT
    THEN text
    ELSE [text EXCEPT !.len = (LIMIT - 3) + 3, !.cut = TRUE]

\* what the function handed in returns
Outcome(ok, value) == [ok |-> ok, value |-> value]
Outcomes == {Outcome(TRUE, "a"), Outcome(TRUE, "b"), Outcome(FALSE, "worker error")}
NO_OUTCOME == Outcome(FALSE, "<none>")
PANICKED == Outcome(FALSE, "<panic>")
UNEXPECTED == Outcome(FALSE, "Background task ended unexpectedly.")

\* what the terminal shows last
Screen(kind, text) == [kind |-> kind, text |-> text]

\* run_with_spinner, up to the loop: the branch on supports_animation, the
\* channels, thread::spawn
SpinnerCall ==
    /\ spin.fpc = "call"
    /\ IF ~spin.animated
       THEN spin' = [spin EXCEPT !.fpc = "sync", !.wpc = "running",
                                 !.screen = Screen("line", spin.current)]
       ELSE spin' = [spin EXCEPT !.fpc = "status", !.wpc = "running",
                                 !.result_tx = TRUE]
    /\ UNCHANGED <<fs, rdRev, now, config, pc, walk, found, candidates, dry_run,
                   index, results, events, cancel, faults, extDeleted, util, cli, gui>>

\* StatusReporter::update, called by the function: a send on the status
\* channel, or a line printed
WorkerUpdate ==
    /\ spin.wpc = "running"
    /\ spin.sent < MaxUpdates
    /\ \E len \in StatusLens :
          LET text == Status(spin.sent + 1, len)
          IN  IF spin.animated
              THEN spin' = [spin EXCEPT !.sent = @ + 1,
                                        !.status_ch = Append(@, text)]
              ELSE spin' = [spin EXCEPT !.sent = @ + 1,
                                        !.screen = Screen("line", text)]
    /\ UNCHANGED <<fs, rdRev, now, config, pc, walk, found, candidates, dry_run,
                   index, results, events, cancel, faults, extDeleted, util, cli, gui>>

\* the function returns: the spawned thread sends the outcome and ends, which
\* drops the sender; without animation `func(reporter)?` hands an Err to the
\* caller and an Ok is returned after the line "done"
WorkerReturn ==
    /\ spin.wpc = "running"
    /\ \E outcome \in Outcomes :
          IF spin.animated
          THEN spin' = [spin EXCEPT !.wpc = "finished", !.outcome = outcome,
                                    !.result_ch = Append(@, outcome),
                                    !.result_tx = FALSE]
          ELSE spin' = [spin EXCEPT !.wpc = "finished", !.outcome = outcome,
                                    !.fpc = "returned",
                                    !.ret = Append(@, outcome),
                                    !.screen = IF outcome.ok
                                               THEN Screen("done", spin.current)
                                               ELSE @]
    /\ UNCHANGED <<fs, rdRev, now, config, pc, walk, found, candidates, dry_run,
                   index, results, events, cancel, faults, extDeleted, util, cli, gui>>

\* the function panics: the spawned thread unwinds and drops the sender of
\* the result channel with nothing sent; without animation the panic is the
\* caller's
WorkerPanic ==
    /\ spin.wpc = "running"
    /\ IF spin.animated
       THEN spin' = [spin EXCEPT !.wpc = "panicked", !.result_tx = FALSE]
       ELSE spin' = [spin EXCEPT !.wpc = "panicked", !.fpc = "returned",
                                 !.ret = Append(@, PANICKED)]
    /\ UNCHANGED <<fs, rdRev, now, config, pc, walk, found, candidates, dry_run,
                   index, results, events, cancel, faults, extDeleted, util, cli, gui>>

\* the loop: match status_rx.try_recv()
SpinnerRecvStatus ==
    /\ spin.fpc = "status"
    /\ IF spin.status_ch # <<>>
       THEN spin' = [spin EXCEPT !.fpc = "result", !.current = Head(spin.status_ch),
                                 !.status_ch = Tail(@)]
       ELSE spin' = [spin EXCEPT !.fpc = "result"]
    /\ UNCHANGED <<fs, rdRev, now, config, pc, walk, found, candidates, dry_run,
                   index, results, events, cancel, faults, extDeleted, util, cli, gui>>

SpinnerRecvResultIgnoresDisconnect ==
    /\ spin.fpc = "result"
    /\ IF spin.result_ch # <<>>
       THEN spin' = [spin EXCEPT !.fpc = "returned",
                                 !.ret = Append(@, Head(spin.result_ch)),
                                 !.result_ch = Tail(@),
                                 !.screen = Screen("done", truncate_status(spin.current))]
       ELSE spin' = [spin EXCEPT !.fpc = "draw"]
    /\ UNCHANGED <<fs, rdRev, now, config, pc, walk, found, candidates, dry_run,
                   index, results, events, cancel, faults, extDeleted, util, cli, gui>>

\* the loop: match result_rx.try_recv(); a message still in the channel is
\* received also after its sender is gone
SpinnerRecvResult ==
    /\ spin.fpc = "result"
    /\ IF spin.result_ch # <<>>
       THEN spin' = [spin EXCEPT !.fpc = "returned",
                                 !.ret = Append(@, Head(spin.result_ch)),
                                 !.result_ch = Tail(@),
                                 !.screen = Screen("done", truncate_status(spin.current))]
       ELSE IF ~spin.result_tx
       THEN spin' = [spin EXCEPT !.fpc = "returned",
                                 !.ret = Append(@, UNEXPECTED),
                                 !.screen = Screen("done", truncate_status(spin.current))]
       ELSE spin' = [spin EXCEPT !.fpc = "draw"]
    /\ UNCHANGED <<fs, rdRev, now, config, pc, walk, found, candidates, dry_run,
                   index, results, events, cancel, faults, extDeleted, util, cli, gui>>

\* the loop: the frame and the status text are printed, then the sleep
SpinnerDraw ==
    /\ spin.fpc = "draw"
    /\ spin' = [spin EXCEPT !.fpc = "status",
                            !.frame_index = (@ + 1) % Len(FRAMES),
                            !.screen = Screen(FRAMES[(spin.frame_index % Len(FRAMES)) + 1],
                                              truncate_status(spin.current))]
    /\ UNCHANGED <<fs, rdRev, now, config, pc, walk, found, candidates, dry_run,
                   index, results, events, cancel, faults, extDeleted, util, cli, gui>>

InitSpinner ==
    /\ \E animated \in BOOLEAN, len \in StatusLens :
          spin = [animated |-> animated, fpc |-> "call", wpc |-> "idle", sent |-> 0,
                  outcome |-> NO_OUTCOME, status_ch |-> <<>>, result_ch |-> <<>>,
                  result_tx |-> FALSE, current |-> Status(0, len), frame_index |-> 0,
                  screen |-> Screen("none", Status(0, len)), ret |-> <<>>]
    /\ fs = UtilTree(FALSE, TRUE)
    /\ rdRev = FALSE
    /\ config = ScanConfig(<<>>, 0, 0, 0, 0, <<>>)
    /\ now = Now
    /\ pc = "spinner"
    /\ walk = WalkInit
    /\ found = <<>>
    /\ candidates = <<>>
    /\ dry_run = FALSE
    /\ index = 0
    /\ results = <<>>
    /\ events = <<>>
    /\ cancel = FALSE
    /\ faults = {}
    /\ extDeleted = FALSE
    /\ util = NoCall
    /\ cli = NoCli
    /\ gui = NoGui

\* the steps of the calling thread
SpinnerLoop == SpinnerCall \/ SpinnerRecvStatus \/ SpinnerRecvResult \/ SpinnerDraw

NextSpinner ==
    \/ SpinnerCall
    \/ WorkerUpdate
    \/ WorkerReturn
    \/ WorkerPanic
    \/ SpinnerRecvStatus
    \/ SpinnerRecvResult
    \/ SpinnerDraw

\* the calling thread is the process's main thread and only sleeps 100 ms a
\* turn: it always takes its next step; nothing makes the function end
SpinnerSpec == InitSpinner /\ [][NextSpinner]_vars /\ WF_vars(SpinnerLoop)

(***************************************************************************)
(* The window of gui.rs: the DevstripView, the handlers of its buttons,    *)
(* and the two background tasks with their completion handlers.  A button  *)
(* takes clicks only while render enables it; every handler ends in        *)
(* cx.notify(), so render has seen the state a click meets.  The scan and  *)
(* the cleanup are the engine's; here a task returns any list, any result. *)
(* status_line, info_message and error_message are text only and are not   *)
(* part of the state.                                                      *)
(***************************************************************************)
NO_FLAG == 0     \* scan_cancel_flag: None

\* what a scan can return
GuiPool ==
    <<Candidate(Proj \o <<"build">>, 1, "Project", <<"Stale build or cache", "build">>, NONE),
      Candidate(Home \o <<".cache", "pip">>, 2, "Python", <<"pip cache">>, NONE),
      Candidate(Proj \o <<"target">>, 1, "Project", <<"Stale build or cache", "target">>, NONE)>>

Picked(seq, S) == SelectSeq(seq, LAMBDA c : c \in S)
ScanOutcomes == {Picked(GuiPool, S) : S \in SUBSET {GuiPool[i] : i \in DOMAIN GuiPool}}

\* DevstripView::new
NewView ==
    [view |-> "open", scanning |-> FALSE, cleaning |-> FALSE, dry_run |-> TRUE,
     deep_scan |-> FALSE, candidates |-> <<>>, all_candidates |-> <<>>,
     available_categories |-> {}, selected_categories |-> {},
     category_filters_dirty |-> FALSE, scan_cancel_flag |-> NO_FLAG,
     last_scan_cancelled |-> FALSE, show_cleanup_confirm |-> FALSE,
     last_scan_config |-> FALSE,
     scan_tasks |-> <<>>, cleanup_tasks |-> <<>>,
     last_cleanup |-> [dry_run |-> TRUE, results |-> <<>>]]

\* Arc::new(AtomicBool::new(false)): a flag no task in flight holds
FreshFlag(tasks) ==
    CHOOSE i \in 1..(Len(tasks) + 1) : \A k \in DOMAIN tasks : tasks[k].flag # i

\* flag.load(Ordering::Relaxed) of the view's flag, false when there is none
scan_cancel_requested(g) ==
    /\ g.scan_cancel_flag # NO_FLAG
    /\ \E k \in DOMAIN g.scan_tasks :
          g.scan_tasks[k].flag = g.scan_cancel_flag /\ g.scan_tasks[k].cancelled

CategoriesOf(seq) == {seq[i].category : i \in DOMAIN seq}

sync_category_state(g) ==
    LET available == CategoriesOf(g.all_candidates)
        selected == IF ~g.category_filters_dirty
                    THEN available
                    ELSE g.selected_categories \cap available
    IN  [g EXCEPT !.available_categories = available,
                  !.selected_categories = selected,
                  !.category_filters_dirty = (selected # available)]

apply_category_filter_all(g) == [g EXCEPT !.candidates = g.all_candidates]

apply_category_filter(g) ==
    IF g.selected_categories = {} /\ g.category_filters_dirty
    THEN [g EXCEPT !.candidates = <<>>]
    ELSE IF g.selected_categories = {}
    THEN [g EXCEPT !.candidates = g.all_candidates]
    ELSE [g EXCEPT !.candidates =
              SelectSeq(g.all_candidates, LAMBDA c : c.category \in g.selected_categories)]

\* start_scan; build_ok: Self::build_scan_config succeeded
start_scan(g, build_ok) ==
    IF g.scanning THEN g
    ELSE LET cleared == [g EXCEPT !.scanning = TRUE, !.cleaning = FALSE,
                                  !.candidates = <<>>, !.all_candidates = <<>>,
                                  !.available_categories = {},
                                  !.scan_cancel_flag = NO_FLAG,
                                  !.last_scan_cancelled = FALSE,
                                  !.show_cleanup_confirm = FALSE]
             flag == FreshFlag(g.scan_tasks)
         IN  IF ~build_ok
             THEN [cleared EXCEPT !.scanning = FALSE]
             ELSE [cleared EXCEPT !.last_scan_config = TRUE,
                                  !.scan_cancel_flag = flag,
                                  !.scan_tasks =
                                      Append(@, [flag |-> flag, cancelled |-> FALSE])]

\* the closure start_scan spawns, run when the scan task has returned
scan_finished(g, k, found_candidates) ==
    LET was_cancelled == scan_cancel_requested(g)
        done == [g EXCEPT !.scanning = FALSE, !.scan_cancel_flag = NO_FLAG,
                          !.last_scan_cancelled = was_cancelled,
                          !.all_candidates = found_candidates,
                          !.scan_tasks = SubSeq(@, 1, k - 1) \o SubSeq(@, k + 1, Len(@))]
    IN  apply_category_filter(sync_category_state(done))

execute_cleanup(g) ==
    IF g.cleaning \/ g.scanning THEN g
    ELSE IF g.candidates = <<>> THEN g
    ELSE [g EXCEPT !.show_cleanup_confirm = FALSE, !.cleaning = TRUE,
                   !.cleanup_tasks =
                       Append(@, [candidates |-> g.candidates, dry_run |-> g.dry_run])]

start_cleanup_no_confirm(g) ==
    IF g.cleaning \/ g.scanning THEN g
    ELSE IF g.candidates = <<>> THEN g
    ELSE execute_cleanup(g)

start_cleanup(g) ==
    IF g.cleaning \/ g.scanning THEN g
    ELSE IF g.candidates = <<>> THEN g
    ELSE IF ~g.dry_run /\ ~g.show_cleanup_confirm
    THEN [g EXCEPT !.show_cleanup_confirm = TRUE]
    ELSE execute_cleanup(g)

\* the closure execute_cleanup spawns, run when the cleanup task has returned
cleanup_finished(g, k, cleanup_results) ==
    LET task == g.cleanup_tasks[k]
        failures == SelectSeq(cleanup_results, Failed)
        done == [g EXCEPT !.cleaning = FALSE,
                          !.cleanup_tasks = SubSeq(@, 1, k - 1) \o SubSeq(@, k + 1, Len(@)),
                          !.last_cleanup = [dry_run |-> task.dry_run,
                                            results |-> cleanup_results]]
    IN  IF task.dry_run
        THEN done
        ELSE apply_category_filter(sync_category_state(
                 [done EXCEPT !.all_candidates =
                     [i \in DOMAIN failures |-> failures[i].candidate]]))

confirm_cleanup_dialog(g) ==
    IF g.cleaning \/ g.scanning THEN g
    ELSE IF ~g.show_cleanup_confirm THEN g
    ELSE execute_cleanup(g)

cancel_cleanup_dialog(g) ==
    IF ~g.show_cleanup_confirm THEN g
    ELSE [g EXCEPT !.show_cleanup_confirm = FALSE]

toggle_dry_run(g) ==
    IF ~g.dry_run
    THEN [g EXCEPT !.dry_run = TRUE, !.show_cleanup_confirm = FALSE]
    ELSE [g EXCEPT !.dry_run = FALSE]

toggle_deep_scan(g) == [g EXCEPT !.deep_scan = ~@]

\* stop_scan of the view: flag.swap(true) on the flag of the running scan
view_stop_scan(g) ==
    IF ~g.scanning THEN g
    ELSE IF g.scan_cancel_flag = NO_FLAG THEN g
    ELSE [g EXCEPT !.scan_tasks =
             [k \in DOMAIN g.scan_tasks |->
                 IF g.scan_tasks[k].flag = g.scan_cancel_flag
                 THEN [g.scan_tasks[k] EXCEPT !.cancelled = TRUE]
                 ELSE g.scan_tasks[k]]]

toggle_category(g, category) ==
    IF category \notin g.available_categories THEN g
    ELSE LET selected == IF category \in g.selected_categories
                         THEN g.selected_categories \ {category}
                         ELSE g.selected_categories \cup {category}
             toggled == [g EXCEPT !.selected_categories = selected,
                                  !.category_filters_dirty =
                                      (selected # g.available_categories)]
         IN  [apply_category_filter(toggled) EXCEPT !.show_cleanup_confirm = FALSE]

\* render: which buttons take clicks
can_scan_while_cleaning(g) == ~g.scanning

can_scan(g) == ~g.scanning /\ ~g.cleaning
can_clean(g) == ~g.scanning /\ ~g.cleaning /\ g.candidates # <<>>
stop_enabled(g) == g.scanning /\ ~scan_cancel_requested(g)

\* the results core::cleanup can return for a list: one per candidate, each a
\* success or a failure
CleanupOutcomes(cands) ==
    {[i \in DOMAIN cands |->
         CleanupResult(cands[i], ok[i], IF ok[i] THEN NO_ERROR ELSE "Permission denied")] :
        ok \in [DOMAIN cands -> BOOLEAN]}

\* the Scan button
ClickScan ==
    /\ gui.view = "open"
    /\ can_scan(gui)
    /\ \E build_ok \in BOOLEAN : gui' = start_scan(gui, build_ok)
    /\ UNCHANGED <<fs, rdRev, now, config, pc, walk, found, candidates, dry_run,
                   index, results, events, cancel, faults, extDeleted, util, cli, spin>>

\* the Stop button
ClickStop ==
    /\ gui.view = "open"
    /\ stop_enabled(gui)
    /\ gui' = view_stop_scan(gui)
    /\ UNCHANGED <<fs, rdRev, now, config, pc, walk, found, candidates, dry_run,
                   index, results, events, cancel, faults, extDeleted, util, cli, spin>>

\* the Clean button
ClickClean ==
    /\ gui.view = "open"
    /\ can_clean(gui)
    /\ gui' = start_cleanup(gui)
    /\ UNCHANGED <<fs, rdRev, now, config, pc, walk, found, candidates, dry_run,
                   index, results, events, cancel, faults, extDeleted, util, cli, spin>>

\* Proceed, in the confirmation dialog
ClickProceed ==
    /\ gui.view = "open"
    /\ gui.show_cleanup_confirm
    /\ gui' = confirm_cleanup_dialog(gui)
    /\ UNCHANGED <<fs, rdRev, now, config, pc, walk, found, candidates, dry_run,
                   index, results, events, cancel, faults, extDeleted, util, cli, spin>>

\* Cancel, in the confirmation dialog
ClickCancel ==
    /\ gui.view = "open"
    /\ gui.show_cleanup_confirm
    /\ gui' = cancel_cleanup_dialog(gui)
    /\ UNCHANGED <<fs, rdRev, now, config, pc, walk, found, candidates, dry_run,
                   index, results, events, cancel, faults, extDeleted, util, cli, spin>>

\* the dry-run switch
ToggleDryRun ==
    /\ gui.view = "open"
    /\ gui' = toggle_dry_run(gui)
    /\ UNCHANGED <<fs, rdRev, now, config, pc, walk, found, candidates, dry_run,
                   index, results, events, cancel, faults, extDeleted, util, cli, spin>>

\* the deep-scan switch
ToggleDeepScan ==
    /\ gui.view = "open"
    /\ gui' = toggle_deep_scan(gui)
    /\ UNCHANGED <<fs, rdRev, now, config, pc, walk, found, candidates, dry_run,
                   index, results, events, cancel, faults, extDeleted, util, cli, spin>>

\* a category of the filter row
ToggleCategory ==
    /\ gui.view = "open"
    /\ gui.available_categories # {}
    /\ \E category \in gui.available_categories : gui' = toggle_category(gui, category)
    /\ UNCHANGED <<fs, rdRev, now, config, pc, walk, found, candidates, dry_run,
                   index, results, events, cancel, faults, extDeleted, util, cli, spin>>

\* a scan task returns and its closure updates the view
ScanTaskDone ==
    /\ gui.view = "open"
    /\ gui.scan_tasks # <<>>
    /\ \E k \in DOMAIN gui.scan_tasks, found_candidates \in ScanOutcomes :
          gui' = scan_finished(gui, k, found_candidates)
    /\ UNCHANGED <<fs, rdRev, now, config, pc, walk, found, candidates, dry_run,
                   index, results, events, cancel, faults, extDeleted, util, cli, spin>>

\* a cleanup task returns and its closure updates the view
CleanupTaskDone ==
    /\ gui.view = "open"
    /\ gui.cleanup_tasks # <<>>
    /\ \E k \in DOMAIN gui.cleanup_tasks :
          \E cleanup_results \in CleanupOutcomes(gui.cleanup_tasks[k].candidates) :
             gui' = cleanup_finished(gui, k, cleanup_results)
    /\ UNCHANGED <<fs, rdRev, now, config, pc, walk, found, candidates, dry_run,
                   index, results, events, cancel, faults, extDeleted, util, cli, spin>>

InitGui ==
    /\ gui = NewView
    /\ fs = UtilTree(FALSE, TRUE)
    /\ rdRev = FALSE
    /\ config = ScanConfig(<<>>, 0, 0, 0, 0, <<>>)
    /\ now = Now
    /\ pc = "gui"
    /\ walk = WalkInit
    /\ found = <<>>
    /\ candidates = <<>>
    /\ dry_run = FALSE
    /\ index = 0
    /\ results = <<>>
    /\ events = <<>>
    /\ cancel = FALSE
    /\ faults = {}
    /\ extDeleted = FALSE
    /\ util = NoCall
    /\ cli = NoCli
    /\ spin = NoSpin

NextGui ==
    \/ ClickScan
    \/ ClickStop
    \/ ClickClean
    \/ ClickProceed
    \/ ClickCancel
    \/ ToggleDryRun
    \/ ToggleDeepScan
    \/ ToggleCategory
    \/ ScanTaskDone
    \/ CleanupTaskDone

GuiSpec == InitGui /\ [][NextGui]_vars

(***************************************************************************)
(* Properties.                                                             *)
(***************************************************************************)
Range(seq) == {seq[i] : i \in 1..Len(seq)}
Min(a, b) == IF a < b THEN a ELSE b

\* every candidate the scan holds: collected, walked, returned
Discovered == Range(found) \cup Range(walk.results) \cup Range(candidates)

\* the filesystem is as the scan saw it
AsScanned == pc \in {"walk", "scanned"} /\ ~extDeleted

\* C1: no candidate of any of the three strategies has a canonical path equal
\* to or nested under an exclude path.
C1_NoCandidateUnderExclude ==
    AsScanned =>
        \A c \in Discovered : \A i \in 1..Len(config.exclude_paths) :
            ~StartsWith(canonical_key(fs, c.path), config.exclude_paths[i])

\* a scan through the link r returned candidates while the excluded build
\* directory, reached as r/build, exists and matches a pattern
C1_Witness ==
    /\ pc = "scanned"
    /\ config.roots = <<RootLink>>
    /\ config.exclude_paths = <<Proj \o <<"build">>>>
    /\ calculate_size(fs, rdRev, RootLink \o <<"build">>) > 0
    /\ \E c \in Range(candidates) : c.path = RootLink \o <<"s", "target">>

DeleteEvents == {j \in DOMAIN events : events[j].kind = "delete"}

C3_DryRunLeavesFilesystem ==
    (pc \in {"cleanup", "done"} /\ dry_run) =>
        /\ \A i \in 1..Len(results) :
              results[i].success /\ results[i].error = NO_ERROR
        /\ (pc = "done" /\ ~extDeleted /\ ~cancel) =>
              Range(scan(fs, rdRev, now, config)) = Range(candidates)

C3_Witness ==
    /\ pc = "done"
    /\ dry_run
    /\ ~extDeleted
    /\ ~cancel
    /\ Len(results) >= 2

\* C4: cleanup returns one result per candidate, in order, each decided by one
\* attempt; a refused deletion is a failure carrying the error text and the
\* candidates after it are still attempted; a success carries no error.
C4_CleanupNeverShortCircuits ==
    (pc \in {"cleanup", "done"}) =>
        /\ Len(results) = index
        /\ \A i \in 1..Len(results) :
              /\ results[i].candidate = candidates[i]
              /\ results[i].success <=> results[i].error = NO_ERROR
        /\ \A j \in DeleteEvents :
              /\ results[events[j].index + 1].success = events[j].ok
              /\ ~events[j].ok =>
                    results[events[j].index + 1].error = "Permission denied"
        /\ pc = "done" =>
              /\ Len(results) = Len(candidates)
              /\ ~dry_run =>
                    \A i \in 0..(Len(candidates) - 1) :
                        Cardinality({j \in DeleteEvents : events[j].index = i}) = 1

\* a failure was followed by a successful removal
C4_Witness ==
    /\ pc = "done"
    /\ ~dry_run
    /\ \E i, j \in 1..Len(results) :
          /\ i < j
          /\ ~results[i].success
          /\ results[j].success
          /\ \E k \in DeleteEvents : events[k].index = j - 1 /\ events[k].existed

\* C5: in a real cleanup a candidate whose path is gone when its turn comes is
\* reported as a success, and nothing is removed for it.
C5_MissingPathIsSuccess ==
    [][(/\ pc = "cleanup"
        /\ ~dry_run
        /\ index' = index + 1
        /\ safe_metadata(fs, candidates[index + 1].path).kind = "none")
       => /\ results'[index + 1].success
          /\ results'[index + 1].error = NO_ERROR
          /\ fs' = fs]_vars

\* a candidate was gone at its turn because an earlier candidate of the batch
\* contained it
C5_Witness ==
    /\ ~dry_run
    /\ ~extDeleted
    /\ \E j \in DeleteEvents :
          /\ ~events[j].existed
          /\ events[j].index + 1 <= Len(results)
          /\ results[events[j].index + 1].success

\* C6: the progress callback is called once per candidate, with its position
\* and the length of the list, in increasing order, before that candidate's
\* deletion attempt and after the attempt of the one before.
C6_ProgressBeforeEachAttempt ==
    (pc \in {"cleanup", "done"}) =>
        LET IsProgress(e) == e.kind = "progress"
            prog == SelectSeq(events, IsProgress)
        IN  /\ Len(prog) = index
            /\ \A k \in 1..Len(prog) :
                  /\ prog[k].index = k - 1
                  /\ prog[k].total = Len(candidates)
                  /\ prog[k].path = candidates[k].path
            /\ \A j \in DeleteEvents :
                  /\ \E k \in 1..(j - 1) :
                        events[k].kind = "progress" /\ events[k].index = events[j].index
                  /\ \A k \in DOMAIN events :
                        (events[k].kind = "progress" /\ k < j) =>
                            events[k].index <= events[j].index
                  /\ \A k \in DOMAIN events :
                        (events[k].kind = "progress" /\ k > j) =>
                            events[k].index > events[j].index
            /\ pc = "done" => Len(prog) = Len(candidates)

C6_Witness ==
    /\ pc = "done"
    /\ ~dry_run
    /\ Len(candidates) >= 3
    /\ Cardinality(DeleteEvents) = Len(candidates)

\* the immediate subdirectories of the Homebrew cache
BrewSubdirs ==
    {p \in {Brew \o <<n>> : n \in Range(NAMES)} : safe_metadata(fs, p).kind = "dir"}

\* those that are not excluded and whose modification time can be read
BrewEligible ==
    {p \in BrewSubdirs :
        /\ ~is_excluded(fs, p, config.exclude_paths)
        /\ modified_ok(safe_metadata(fs, p)) # NONE}

BrewFlagged == {c.path : c \in {x \in Range(found) : x.category = "Homebrew"}}

Mtime(p) == safe_metadata(fs, p).mtime

\* C7 (amended): of the subdirectories that are not excluded, min(keep, their
\* number) most recently modified ones are retained, and the flagged ones are
\* exactly the others whose size is not zero.
C7_KeepLatestRetention ==
    (pc = "scanned" /\ ~extDeleted) =>
        \E K \in SUBSET BrewEligible :
            /\ Cardinality(K) = Min(config.keep_latest_cache, Cardinality(BrewEligible))
            /\ \A a \in K : \A b \in BrewEligible \ K : Mtime(a) >= Mtime(b)
            /\ BrewFlagged =
                  {p \in BrewEligible \ K : calculate_size(fs, rdRev, p) > 0}

\* three downloads of different ages, keep = 1: the two older ones are flagged
C7_Witness ==
    /\ pc = "scanned"
    /\ ~extDeleted
    /\ config.keep_latest_cache = 1
    /\ Cardinality(BrewSubdirs) = 3
    /\ Cardinality({Mtime(p) : p \in BrewSubdirs}) = 3
    /\ Cardinality(BrewFlagged) = 2

\* C7 as stated: with N subdirectories and keep = k < N exactly N - k are
\* flagged, and they are the least recently modified ones.
C7_Original ==
    (pc = "scanned" /\ ~extDeleted /\ config.keep_latest_cache < Cardinality(BrewSubdirs)) =>
        /\ Cardinality(BrewFlagged) = Cardinality(BrewSubdirs) - config.keep_latest_cache
        /\ \A a \in BrewSubdirs \ BrewFlagged : \A b \in BrewFlagged : Mtime(a) >= Mtime(b)

\* how many levels the i-th candidate of the walk lies below its root
Levels(i) == Len(walk.results[i].path) - Len(walk.origin[i])

\* C8 (amended): the directories listed lie at most max_depth levels below
\* their root, so no candidate of the walk lies more than max_depth + 1 levels
\* below the root it was found from.
C8_DepthBound ==
    /\ \A i \in 1..Len(walk.results) :
          /\ StartsWith(walk.results[i].path, walk.origin[i])
          /\ Levels(i) <= config.max_depth + 1
    /\ \A i \in 1..Len(walk.queue) :
          /\ walk.queue[i].depth <= config.max_depth
          /\ Len(walk.queue[i].path) - Len(walk.root) = walk.queue[i].depth

C8_Witness ==
    /\ pc = "scanned"
    /\ config.max_depth >= 1
    /\ \E i \in 1..Len(walk.results) : Levels(i) = config.max_depth + 1

\* C8 as stated: no candidate lies more than max_depth levels below its root.
C8_Original ==
    \A i \in 1..Len(walk.results) : Levels(i) <= config.max_depth

WalkPaths == {c.path : c \in Range(walk.results)}

\* the entries of the listed directories that match a pattern and can be flagged
Matched ==
    {p \in {cur \o <<n>> : cur \in Range(walk.listed), n \in Range(NAMES)} :
        /\ safe_metadata(fs, p).kind = "dir"
        /\ ~is_excluded(fs, p, config.exclude_paths)
        /\ Last(p) \notin SKIP_DIR_NAMES
        /\ Last(p) \in PROJECT_PATTERNS
        /\ calculate_size(fs, rdRev, p) > 0}

\* C9 (amended): when a cutoff is computed (min_age_days > 0 and now minus
\* that many days is a time), no matched directory other than __pycache__
\* whose modification time is read and is not before the cutoff is flagged; one
\* whose modification time cannot be read is flagged at any age; with
\* min_age_days = 0 every matched directory is flagged.
C9_AgeCutoff ==
    /\ \A c \in Range(walk.results) :
          (/\ Last(c.path) # "__pycache__"
           /\ Cutoff(now, config.min_age_days) # NONE
           /\ c.last_used # NONE)
          => c.last_used < Cutoff(now, config.min_age_days)
    /\ (AsScanned /\ pc = "scanned" /\ ~cancel) =>
          /\ config.min_age_days = 0 => Matched \subseteq WalkPaths
          /\ \A p \in Matched : safe_metadata(fs, p).mtime_err => p \in WalkPaths

\* with a cutoff, a build directory modified at the cutoff was left alone
\* while an older target directory was flagged
C9_Witness ==
    /\ pc = "scanned"
    /\ ~extDeleted
    /\ ~cancel
    /\ Cutoff(now, config.min_age_days) # NONE
    /\ (Proj \o <<"build">>) \in Matched
    /\ modified_ok(safe_metadata(fs, Proj \o <<"build">>)) = Cutoff(now, config.min_age_days)
    /\ (Proj \o <<"build">>) \notin WalkPaths
    /\ (Proj \o <<"s", "target">>) \in WalkPaths

\* C9 as stated: with min_age_days = d > 0 no matched directory other than
\* __pycache__ that was modified less than d days before the scan is flagged,
\* whatever can be read of it.
C9_Original ==
    (AsScanned /\ config.min_age_days > 0) =>
        \A c \in Range(walk.results) :
            Last(c.path) # "__pycache__" =>
                ~(Mtime(c.path) > now - config.min_age_days * SECS_PER_DAY)

\* C10: every candidate of every strategy has size_bytes > 0.
C10_SizePositive == \A c \in Discovered : c.size_bytes > 0

\* the oldest download is beyond keep and empty, and is not among the
\* candidates returned
C10_Witness ==
    /\ pc = "scanned"
    /\ ~extDeleted
    /\ config.keep_latest_cache = 0
    /\ (Brew \o <<"A">>) \in BrewEligible
    /\ calculate_size(fs, rdRev, Brew \o <<"A">>) = 0
    /\ Len(candidates) = 2

\* everything the strategies produced, in discovery order
Gathered == found \o walk.results

Key(c) == canonical_key(fs, c.path)

\* the positions of Gathered that hold the first candidate of their canonical path
FirstOfKey == {i \in 1..Len(Gathered) :
                 \A j \in 1..(i - 1) : Key(Gathered[j]) # Key(Gathered[i])}

\* C11: the list scan returns holds no two candidates of the same canonical
\* path, and of the candidates discovered for one canonical path it holds the
\* one discovered first, with its category and reason.
C11_DedupeKeepsFirst ==
    (pc = "scanned" /\ ~extDeleted) =>
        /\ \A i, j \in 1..Len(candidates) :
              i # j => Key(candidates[i]) # Key(candidates[j])
        /\ Range(candidates) = {Gathered[i] : i \in FirstOfKey}

\* the link ~/.npm to the build directory was found first, as a Node cache,
\* and the walk found the build directory itself later
C11_Witness ==
    /\ pc = "scanned"
    /\ ~extDeleted
    /\ \E i, j \in 1..Len(Gathered) :
          /\ i < j
          /\ Gathered[i].path = <<"h", ".npm">>
          /\ Gathered[j].path = Proj \o <<"build">>
          /\ Gathered[i].category = "Node"
          /\ Gathered[i] \in Range(candidates)
          /\ Gathered[j] \notin Range(candidates)

\* C12: the list scan returns is ordered: of two adjacent candidates the
\* first is larger, or they are as large and its category is smaller, or they
\* agree on both and its path is not greater.
C12_SortedOrder ==
    (pc \in {"scanned", "cleanup", "done"}) =>
        \A i \in 1..(Len(candidates) - 1) :
            LET a == candidates[i]
                b == candidates[i + 1]
            IN  \/ a.size_bytes > b.size_bytes
                \/ /\ a.size_bytes = b.size_bytes
                   /\ Rank(CATEGORIES, a.category) < Rank(CATEGORIES, b.category)
                \/ /\ a.size_bytes = b.size_bytes
                   /\ a.category = b.category
                   /\ PathCmp(a.path, b.path) <= 0

\* each key decides a pair: a larger Python cache before a smaller project
\* directory, a Project before a Python cache of its size, two project
\* directories of one size by path
C12_Witness ==
    /\ pc = "scanned"
    /\ \E i, j, k \in 1..(Len(candidates) - 1) :
          /\ candidates[i].size_bytes > candidates[i + 1].size_bytes
          /\ Rank(CATEGORIES, candidates[i].category)
                > Rank(CATEGORIES, candidates[i + 1].category)
          /\ candidates[j].size_bytes = candidates[j + 1].size_bytes
          /\ candidates[j].category # candidates[j + 1].category
          /\ candidates[k].size_bytes = candidates[k + 1].size_bytes
          /\ candidates[k].category = candidates[k + 1].category

\* C13: a scan of the same filesystem with the same config returns the same
\* list whatever the order in which the OS lists directory entries.
C13_Deterministic ==
    (pc = "scanned" /\ ~extDeleted /\ ~cancel) =>
        candidates = scan(fs, ~rdRev, now, config)

\* the entries of the filesystem that lie at or under an exclude path
Protected ==
    {q \in DOMAIN fs :
        /\ fs[q].kind # "none"
        /\ \E i \in 1..Len(config.exclude_paths) : StartsWith(q, config.exclude_paths[i])}

\* C14: a cleanup of the candidates a scan returned removes nothing that is
\* equal to or under an exclude path of the scan's config.
C14_ExcludedNeverRemoved ==
    [][(pc = "cleanup" /\ ~dry_run) => \A q \in Protected : fs'[q] = fs[q]]_vars

\* C15: is_excluded is true exactly when the canonical form of the path (the
\* path itself when it cannot be canonicalized) is an exclude or has one as an
\* ancestor, component by component; ~/pip is not excluded by the exclude ~/p.
C15_IsExcludedComponentWise ==
    util.op = "is_excluded" =>
        LET c == canonicalize(fs, util.path)
            resolved == IF c.ok THEN c.path ELSE util.path
            Ancestors == {SubSeq(resolved, 1, k) : k \in 0..Len(resolved)}
        IN  /\ util.ret <=> \E i \in DOMAIN util.excludes : util.excludes[i] \in Ancestors
            /\ (util.path = <<"h", "pip">> /\ util.excludes = <<Proj>>) => ~util.ret
            /\ (~c.ok /\ util.excludes = <<Front(util.path)>>) => util.ret

\* the sibling ~/pip of the excluded ~/p was asked for and is not excluded
C15_Witness ==
    /\ util.op = "is_excluded"
    /\ util.path = <<"h", "pip">>
    /\ util.excludes = <<Proj>>
    /\ ~util.ret

\* the roots default_roots starts from, in order, and their canonical forms
RootInputs ==
    LET joined == [i \in 1..Len(DEFAULT_HOME_PROJECT_DIRS) |->
                      <<"h", DEFAULT_HOME_PROJECT_DIRS[i]>>]
        Existing(q) == Stat(fs, q).kind = "dir"
    IN  <<util.env.cwd>>
        \o (IF util.env.home_some THEN SelectSeq(joined, Existing) ELSE <<>>)
        \o util.extra

RootKey(k) == canonical_key(fs, RootInputs[k])

\* the inputs that are returned: they exist, are not excluded, and no earlier
\* input has their canonical path
RootsKept ==
    {k \in 1..Len(RootInputs) :
        /\ canonicalize(fs, RootInputs[k]).ok
        /\ \A i \in DOMAIN util.excludes : ~StartsWith(RootKey(k), util.excludes[i])
        /\ \A j \in 1..(k - 1) : RootKey(j) # RootKey(k)}

\* C16: default_roots returns canonical paths in the order current directory,
\* existing well-known home subdirectories, extra roots; none twice, the
\* first occurrence kept; every one exists and none is at or under an exclude.
C16_DefaultRoots ==
    util.op = "default_roots" =>
        /\ util.ret.ok <=> util.env.cwd_ok
        /\ util.ret.ok =>
              LET roots == util.ret.roots
              IN  /\ Len(roots) = Cardinality(RootsKept)
                  /\ \A k \in RootsKept :
                        roots[Cardinality({j \in RootsKept : j <= k})] = RootKey(k)
                  /\ \A i, j \in DOMAIN roots : i # j => roots[i] # roots[j]
                  /\ \A i \in DOMAIN roots :
                        /\ canonicalize(fs, roots[i]) = [ok |-> TRUE, path |-> roots[i]]
                        /\ \A e \in DOMAIN util.excludes :
                              ~StartsWith(roots[i], util.excludes[e])

\* the current directory is the link r to the project, ~/Projects is a link to
\* the project too and is dropped, ~/Work and ~/Developer exist, and of the
\* extra roots one does not exist
C16_Witness ==
    /\ util.op = "default_roots"
    /\ util.env.cwd = RootLink
    /\ Stat(fs, <<"h", "Projects">>).kind = "dir"
    /\ util.extra = <<<<"h", "gone">>, Proj \o <<"s">>>>
    /\ util.ret.ok
    /\ util.ret.roots = <<Proj, <<"h", "Work">>, <<"h", "Developer">>, Proj \o <<"s">>>>

\* C17: scan_total_size returns the sum of the sizes, or the largest u64 when
\* the sum is beyond it; it neither wraps around nor aborts.
C17_SaturatingTotal ==
    util.op = "scan_total_size" =>
        /\ ~util.ret.panicked
        /\ util.ret.value = Min(SumSizes(util.candidates), U64_MAX)

\* C18: within one scan the walk lists no directory twice, over all the
\* configured roots.
C18_AtMostOnePass ==
    AsScanned =>
        \A i, j \in DOMAIN walk.listed : i # j => walk.listed[i] # walk.listed[j]

\* the walk matches the directory p: classify_project_dir gives a reason for
\* its name, the cutoff and its modification time
WalkMatches(p) ==
    LET metadata == safe_metadata(fs, p)
    IN  /\ metadata.kind = "dir"
        /\ classify_project_dir(Last(p), "Stale build or cache",
                                Cutoff(now, config.min_age_days),
                                modified_ok(metadata)) # NO_REASON

\* the directories strictly between root and p
Between(root, p) == {SubSeq(p, 1, k) : k \in (Len(root) + 1)..(Len(p) - 1)}

\* C20: a directory the walk matches is a leaf: it is never in the queue, so
\* no candidate of the walk from a root, and no directory it lists, lies
\* below a directory that walk matched, flagged or not.
C20_MatchedIsLeaf ==
    AsScanned =>
        /\ \A i \in DOMAIN walk.queue :
              Len(walk.queue[i].path) > Len(walk.root) =>
                  /\ ~WalkMatches(walk.queue[i].path)
                  /\ \A a \in Between(walk.root, walk.queue[i].path) : ~WalkMatches(a)
        /\ \A i \in DOMAIN walk.results :
              \A a \in Between(walk.origin[i], walk.results[i].path) : ~WalkMatches(a)

\* the walk was deep enough to list build, flagged it, and did not flag the
\* non-empty build/out inside it
C20_Witness ==
    /\ pc = "scanned"
    /\ ~extDeleted
    /\ ~cancel
    /\ config.roots = <<Proj>>
    /\ config.max_depth >= 1
    /\ (Proj \o <<"build">>) \in WalkPaths
    /\ WalkMatches(Proj \o <<"build", "out">>)
    /\ calculate_size(fs, rdRev, Proj \o <<"build", "out">>) > 0
    /\ ~is_excluded(fs, Proj \o <<"build", "out">>, config.exclude_paths)
    /\ (Proj \o <<"build", "out">>) \notin WalkPaths

\* the lines real_main prints for the results that failed, in order
FailureLines ==
    LET failures == SelectSeq(results, Failed)
    IN  [i \in DOMAIN failures |->
            [path |-> failures[i].candidate.path, reason |-> failures[i].error]]

Below(root, p) == {p[k] : k \in (Len(root) + 1)..Len(p)}

\* C21 (amended): a directory with a skip-list name that the walk meets as an
\* entry is never flagged and never queued, whatever its age and also when the
\* name is a pattern (.gradle), so nothing below such an entry is listed or
\* flagged; a configured root is listed whatever its name.
C21_SkipListPruned ==
    AsScanned =>
        /\ \A i \in DOMAIN walk.results :
              Below(walk.origin[i], walk.results[i].path) \cap SKIP_DIR_NAMES = {}
        /\ \A i \in DOMAIN walk.queue :
              Below(walk.root, walk.queue[i].path) \cap SKIP_DIR_NAMES = {}

\* the project was listed with an old, non-empty .gradle in it, which is a
\* pattern name too: it was not flagged, and nor was build inside .git
C21_Witness ==
    /\ pc = "scanned"
    /\ ~extDeleted
    /\ ~cancel
    /\ config.roots = <<Proj>>
    /\ config.max_depth >= 1
    /\ config.exclude_paths = <<>>
    /\ WalkMatches(Proj \o <<".gradle">>)
    /\ calculate_size(fs, rdRev, Proj \o <<".gradle">>) > 0
    /\ (Proj \o <<".gradle">>) \notin WalkPaths
    /\ (Proj \o <<".git", "build">>) \notin WalkPaths
    /\ (Proj \o <<"build">>) \in WalkPaths

\* C21 as stated: no directory with a skip-list name is listed by the walk,
\* and none is flagged.
C21_Original ==
    AsScanned =>
        /\ \A i \in DOMAIN walk.listed : Last(walk.listed[i]) \notin SKIP_DIR_NAMES
        /\ \A i \in DOMAIN walk.results : Last(walk.results[i].path) \notin SKIP_DIR_NAMES

\* the names of the universe that end in .egg-info
EggInfoNames == {"x.egg-info", ".egg-info"}

\* C22: classify_project_dir gives __pycache__ the base reason, unannotated,
\* for every cutoff and modification time; any other name gets a reason only
\* when it is in the pattern set or ends in .egg-info, and the reason is then
\* the base reason annotated with the name; no other name gets a reason.
C22_Classifier ==
    util.op = "classify_project_dir" =>
        /\ util.name = "__pycache__" => util.ret = <<util.base_reason>>
        /\ (util.name # "__pycache__" /\ util.ret # NO_REASON) =>
              /\ util.name \in PROJECT_PATTERNS \cup EggInfoNames
              /\ util.ret = <<util.base_reason, util.name>>
        /\ util.name \notin PROJECT_PATTERNS \cup EggInfoNames => util.ret = NO_REASON
        /\ (/\ util.name \in PROJECT_PATTERNS \cup EggInfoNames
            /\ (util.cutoff = NONE \/ util.modified = NONE \/ util.modified < util.cutoff))
           => util.ret # NO_REASON

\* __pycache__ modified after the cutoff was classified
C22_Witness ==
    /\ util.op = "classify_project_dir"
    /\ util.name = "__pycache__"
    /\ util.cutoff # NONE
    /\ util.modified # NONE
    /\ util.modified > util.cutoff
    /\ util.ret = <<"Stale build or cache">>

\* the regular files at or below p, p itself not followed when it is a link
RegularFilesUnder(p) ==
    {q \in DOMAIN fs : fs[q].kind = "file" /\ StartsWith(q, Location(fs, p))}

RECURSIVE SumLen(_)
SumLen(S) ==
    IF S = {} THEN 0
    ELSE LET q == CHOOSE x \in S : TRUE IN fs[q].len + SumLen(S \ {q})

\* C23: the size of a candidate is the total length of the regular files under
\* its path; no symbolic link adds its length, the path itself included.
C23_SizeExcludesLinks ==
    AsScanned =>
        \A c \in Discovered :
            c.size_bytes = Min(SumLen(RegularFilesUnder(c.path)), U64_MAX)

\* C29: in the list scan returns no candidate's canonical path lies inside
\* another candidate's.
C29_NoNestedCandidates ==
    (pc = "scanned" /\ ~extDeleted) =>
        \A i, j \in DOMAIN candidates :
            i # j => ~StartsWith(Key(candidates[i]), Key(candidates[j]))

\* the trees a command-line run starts from
CliTrees == {ProjTree(Dir(DaysAgo(MaxAge)), lb, DaysAgo(MaxAge), FALSE) : lb \in {1, BigLen}}

\* the user was asked and typed something that is not yes
Declined ==
    /\ ~cli.args.yes
    /\ cli.answer \notin {NOT_ASKED, READ_ERROR}
    /\ ~trim_eq_yes(cli.answer)

\* the scan ran and returned no candidate
ScanFoundNothing ==
    /\ pc \in {"scanned", "confirm", "cleanup", "done", "exit"}
    /\ cli.env.cwd_ok
    /\ candidates = <<>>

WorkerEnded == spin.fpc # "none" /\ spin.animated /\ spin.wpc \in {"finished", "panicked"}

\* C24: with a background worker run_with_spinner returns once the worker has
\* ended; it returns once only, and then exactly the result the worker sent,
\* also when status messages are left unread, or the error "Background task
\* ended unexpectedly." when the worker ended without sending; it never
\* returns before; the status text on the terminal never goes back to an
\* earlier update.
C24_SpinnerReturns ==
    /\ [](WorkerEnded =>
             /\ Len(spin.ret) <= 1
             /\ spin.fpc = "returned" <=> Len(spin.ret) = 1
             /\ (spin.fpc = "returned" /\ spin.wpc = "finished") =>
                    spin.ret = <<spin.outcome>>
             /\ (spin.fpc = "returned" /\ spin.wpc = "panicked") =>
                    spin.ret = <<UNEXPECTED>>)
    /\ []((spin.fpc # "none" /\ spin.animated /\ ~WorkerEnded) =>
             (spin.ret = <<>> /\ spin.fpc # "returned"))
    /\ [][(spin.fpc # "none" /\ spin.animated) =>
              spin'.screen.text.id >= spin.screen.text.id]_vars
    /\ (WorkerEnded ~> spin.fpc = "returned")

\* the worker sent two updates and its result; the loop returned that result
\* with the second update still in the status channel
C24_Witness ==
    /\ WorkerEnded
    /\ spin.wpc = "finished"
    /\ spin.sent = MaxUpdates
    /\ spin.fpc = "returned"
    /\ spin.ret = <<spin.outcome>>
    /\ spin.outcome.ok
    /\ spin.status_ch # <<>>
    /\ spin.screen.text.id = 1
    /\ spin.screen.text.cut

\* C25: in the window a scan task and a cleanup task are never in flight
\* together; scanning is true exactly while a scan task is in flight and
\* cleaning exactly while a cleanup task is; there is never more than one task
\* of either kind.
C25_OneTaskAtATime ==
    gui.view = "open" =>
        /\ ~(gui.scan_tasks # <<>> /\ gui.cleanup_tasks # <<>>)
        /\ gui.scanning <=> gui.scan_tasks # <<>>
        /\ gui.cleaning <=> gui.cleanup_tasks # <<>>
        /\ Len(gui.scan_tasks) <= 1
        /\ Len(gui.cleanup_tasks) <= 1

\* after a scan that was stopped, a cleanup that deletes is in flight
C25_Witness ==
    /\ gui.view = "open"
    /\ gui.last_scan_cancelled
    /\ gui.cleaning
    /\ ~gui.scanning
    /\ Len(gui.cleanup_tasks) = 1
    /\ ~gui.cleanup_tasks[1].dry_run
    /\ Len(gui.cleanup_tasks[1].candidates) >= 2

\* a step of the window starts a cleanup task that deletes
StartsRealCleanup ==
    /\ gui.view = "open"
    /\ Len(gui'.cleanup_tasks) > Len(gui.cleanup_tasks)
    /\ ~gui'.cleanup_tasks[Len(gui'.cleanup_tasks)].dry_run

\* C26: a cleanup task that deletes is started only from a state that shows
\* the confirmation dialog; and whenever the dialog shows, dry_run is false,
\* the visible list is not empty, and neither a scan nor a cleanup is running,
\* by the flags and by the tasks in flight.
C26_ConfirmedCleanup ==
    /\ [][StartsRealCleanup => gui.show_cleanup_confirm]_vars
    /\ []((gui.view = "open" /\ gui.show_cleanup_confirm) =>
             /\ ~gui.dry_run
             /\ gui.candidates # <<>>
             /\ ~gui.scanning /\ ~gui.cleaning
             /\ gui.scan_tasks = <<>> /\ gui.cleanup_tasks = <<>>)

\* the dialog shows over a list narrowed by the category filter
C26_Witness ==
    /\ gui.view = "open"
    /\ gui.show_cleanup_confirm
    /\ gui.category_filters_dirty
    /\ Len(gui.candidates) < Len(gui.all_candidates)
    /\ gui.last_cleanup.results # <<>>

\* a step of the window starts a cleanup task
StartsCleanup ==
    /\ gui.view = "open"
    /\ Len(gui'.cleanup_tasks) > Len(gui.cleanup_tasks)

\* a step of the window is the completion of a cleanup task that deletes
CompletesRealCleanup ==
    /\ gui.view = "open"
    /\ Len(gui'.cleanup_tasks) < Len(gui.cleanup_tasks)
    /\ ~gui'.last_cleanup.dry_run

\* the candidates the results report as removed
RemovedBy(res) == {res[i].candidate : i \in {j \in DOMAIN res : res[j].success}}

\* C27: a cleanup task is given the list visible when it starts and reports on
\* no other candidate; when a cleanup that deletes completes, every candidate
\* of all_candidates that was not removed, whether its removal failed or the
\* filter hid it, is still in all_candidates.
C27_UnremovedKept ==
    /\ [][StartsCleanup =>
             gui'.cleanup_tasks[Len(gui'.cleanup_tasks)].candidates = gui.candidates]_vars
    /\ [][CompletesRealCleanup =>
             \A c \in Range(gui.all_candidates) :
                 c \notin RemovedBy(gui'.last_cleanup.results) =>
                     c \in Range(gui'.all_candidates)]_vars

\* all_candidates restricted to the selected categories
RestrictedToSelected ==
    SelectSeq(gui.all_candidates, LAMBDA c : c.category \in gui.selected_categories)

\* C28 (amended): in every state of the window the visible list is
\* all_candidates restricted to the selected categories and
\* available_categories is the set of categories of all_candidates; in every
\* state where all_candidates is not empty, selected_categories is a subset of
\* available_categories and category_filters_dirty is true exactly when the
\* two sets differ.
C28_FilterState ==
    gui.view = "open" =>
        /\ gui.candidates = RestrictedToSelected
        /\ gui.available_categories = CategoriesOf(gui.all_candidates)
        /\ gui.all_candidates # <<>> =>
              /\ gui.selected_categories \subseteq gui.available_categories
              /\ gui.category_filters_dirty <=>
                     gui.selected_categories # gui.available_categories

\* a scan that was stopped returned three candidates of two categories, under
\* a filter narrowed before it to Python: one candidate is visible
C28_Witness ==
    /\ gui.view = "open"
    /\ gui.last_scan_cancelled
    /\ Len(gui.all_candidates) = 3
    /\ gui.available_categories = {"Project", "Python"}
    /\ gui.selected_categories = {"Python"}
    /\ gui.category_filters_dirty
    /\ Len(gui.candidates) = 1

\* C28 as stated: in every state of the window, a running scan included,
\* selected_categories is a subset of available_categories, the dirty flag is
\* true exactly when the two differ, and the visible list is all_candidates
\* restricted to the selected categories.
C28_Original ==
    gui.view = "open" =>
        /\ gui.selected_categories \subseteq gui.available_categories
        /\ gui.category_filters_dirty <=>
               gui.selected_categories # gui.available_categories
        /\ gui.candidates = RestrictedToSelected

====
